---------------------------- MODULE Spec2Model ----------------------------
(***************************************************************************)
(* Model of the tiered fetch orchestrator of nsrch_cli:                    *)
(*   - the proxy rater (src/utils/proxy_handler.py): fetch_proxy_list,     *)
(*     check_proxy_with_httpx and build_rated_proxy_pool, with the probe   *)
(*     tasks interleaved under an asyncio.Semaphore;                       *)
(*   - the entry point (src/main.py) and the per-query workflow            *)
(*     SearchApp.run (src/scraping/search.py) with its three phases.       *)
(*   - the score of a validated proxy (check_proxy_with_httpx);            *)
(*   - the fast path (src/scraping/http_scraper.py) from the GET on;       *)
(*   - the two browser handlers (src/browser/playwright_handler.py and     *)
(*     src/browser/browser_flow_handler.py), step by step.                 *)
(* SpecPool checks the proxy rater, SpecApp the entry point and workflow,  *)
(* SpecScore the score, SpecFast the fast path, SpecBrowser the handlers.  *)
(***************************************************************************)
EXTENDS Integers, Sequences, FiniteSets, TLC

(***************************************************************************)
(* Bounds of the model.                                                    *)
(***************************************************************************)
\* longest provider feed (number of proxies the provider lists)
MaxFeed == 2
\* largest max_concurrent / num_retries argument tried
MaxConcurrent == 1
MaxRetries == 2
\* latencies are counted in ticks of 0.1 ms; probe latencies are multiples of
\* LatencyStep ticks, 0..MaxLatencySteps
LatencyStep == 4998
MaxLatencySteps == 1
\* the score function is tabulated on the latencies 0..MaxScoreInputs steps
MaxScoreInputs == 12
\* longest response body and longest captcha_keywords list tried
MaxBody == 2
MaxKeywords == 2
\* longest consent_button_selectors list tried
MaxSelectors == 2
\* longest pool handed to a proxy selection: at 8 the top quartile holds two
MaxPool == 8
\* longest pool a collection cycle pings: above the 25 permits, so that
\* pings wait while others are in flight and one has already ended
MaxCyclePool == 27
\* collection cycles started
MaxCycles == 2
\* AIManager() constructions and completion requests made in one process
MaxCalls == 8
\* longest parsed_data handed to save_to_csv: above the 10 rows it keeps
MaxRows == 11
\* calls of save_to_csv
MaxSaves == 2

(***************************************************************************)
(* Program constants.                                                      *)
(***************************************************************************)
\* float("inf"), the latency of a failed probe
InfLatency == 1000000000
\* ticks of time.monotonic() in one second
TicksPerSecond == 10000
\* 100 - latency * 20, in thousandths: 100 is ScoreTop, and 20 per second is
\* ScorePerTick thousandths per tick
ScoreTop == 100000
ScorePerTick == 2

VARIABLES
    \* ---- build_rated_proxy_pool ----
    fetch_limit,      \* argument fetch_limit
    max_concurrent,   \* argument max_concurrent
    num_retries,      \* argument num_retries
    provider,         \* what the proxy-list provider answers
    bpc,              \* position of build_rated_proxy_pool
    raw_proxies,      \* result of fetch_proxy_list
    sem,              \* value of the asyncio.Semaphore
    tpc,              \* position of each check_proxy_with_httpx task
    attempt,          \* loop index of each task (attempts made so far)
    results,          \* what asyncio.gather collects, in task order
    valid_proxies,    \* the list being built and returned
    build_status,     \* "running", "returned" or "raised"
    \* ---- start / SearchApp ----
    settings,         \* USE_FREE_PROXIES and the static proxy credentials
    engine,           \* --engine argument, lower-cased
    mpc,              \* position of start / main_async_logic
    caught,           \* what start's try block caught
    proxy_pool,       \* SearchApp.proxy_pool
    rpc,              \* position of SearchApp.run
    state,            \* SearchApp.state
    search_result,    \* result of _attempt_fast_scrape
    browser_result,   \* result of run_full_browser_flow
    parsed_data,      \* parsed results handed to process_successful_results
    log,              \* calls and returns of the collaborators, in order
    \* ---- the score of a validated proxy, tabulated ----
    probe_latency,    \* latency measured for each of two probes
    probe_score,      \* score returned for each of them
    scored,           \* the probes whose score has been computed
    \* ---- perform_http_search ----
    captcha_keywords, \* engine_config["captcha_keywords"]
    server,           \* what session.get() meets: an error or a response
    archive_writable, \* whether open(filename, "w") succeeds
    fpc,              \* position of perform_http_search
    kw_index,         \* position of the keyword loop (1-based)
    html_content,     \* resp.text
    archives,         \* what was written under CAPTCHAS_DIR and SUCCESS_DIR
    fast_result,      \* how perform_http_search ended
    \* ---- warmup_session_and_get_state / run_full_browser_flow ----
    flow,             \* which of the two browser handlers runs
    profile,          \* index of the profile random.choice picked
    hpc,              \* position of the handler
    browser,          \* "none", "open", "disconnected" or "closed"
    failed_step,      \* the step that raised, "none" if no step did
    handler_result,   \* how the handler ended
    steps,            \* the steps the handler has finished, with their outcome
    selectors,        \* length of engine_config["consent_button_selectors"]
    sel_index,        \* position of the consent loop (1-based)
    tried,            \* the selectors the consent loop has looked up, in order
    clicks,           \* the selectors whose button was clicked, in order
    marker,           \* whether "#js-button" was found: "unknown" before
    is_solved,        \* what solve_yandex_captcha returned: "none" before
    \* ---- fetch_proxy_list ----
    list_limit,       \* argument limit
    feed,             \* what the provider answers
    qpc,              \* position of fetch_proxy_list
    picked,           \* provider positions random.sample drew, in order
    fetched,          \* the list returned
    \* ---- uses of SearchApp.state ----
    state_writes,     \* number of assignments to self.state made by run()
    state_readers,    \* the phases that have read the state's entries
    saved_rows,       \* rows process_successful_results handed to the CSV log
    visited,          \* URLs visit_urls_and_screenshot has navigated to
    \* ---- the proxy a phase connects through ----
    caller,           \* the phase selecting: "warmup" or "fast"
    pool_arg,         \* its argument proxy_pool, best entry first
    static_proxy,     \* whether PROXY_HOST and PROXY_USER are set
    spc,              \* position of the selection
    proxy_choice,     \* the proxy selected so far
    \* ---- main_collector_loop ----
    cpc,              \* position of the collector loop
    cycle,            \* collection cycles started
    cycle_pool,       \* length of the pool built for the cycle
    ping_sem,         \* value of the cycle's asyncio.Semaphore
    pings_waiting,    \* throttled_ping tasks not yet admitted
    pings_in_flight,  \* tasks inside "async with sem"
    pings_ok,         \* pings that ended without an exception
    pings_caught,     \* pings that ended in one of their except clauses
    \* ---- AIManager ----
    ai_instance,      \* AIManager._instance: "none" or "created"
    ai_client,        \* self.client: "unset", "none" or "connected"
    init_runs,        \* calls of _initialize_client
    init_raised,      \* whether a construction let an exception out
    ai_calls,         \* AIManager() constructions and completion requests made
    contacts,         \* calls of self.client.generate
    last_completion,  \* what the last completion request returned
    \* ---- save_to_csv ----
    csv_exists,       \* whether OUTPUT_FILE exists
    csv_file,         \* the lines of OUTPUT_FILE, in order
    saves,            \* calls of save_to_csv made
    headers_written   \* calls of writer.writeheader()

poolVars == <<fetch_limit, max_concurrent, num_retries, provider, bpc,
              raw_proxies, sem, tpc, attempt, results, valid_proxies,
              build_status>>
appVars == <<settings, engine, mpc, caught, proxy_pool, rpc, state, search_result,
             browser_result, parsed_data, log>>
scoreVars == <<probe_latency, probe_score, scored>>
fastVars == <<captcha_keywords, server, archive_writable, fpc, kw_index,
              html_content, archives, fast_result>>
browserVars == <<flow, profile, hpc, browser, failed_step, handler_result,
                 steps, selectors, sel_index, tried, clicks, marker,
                 is_solved>>
\* what an action of one part of the model leaves alone
fetchVars == <<list_limit, feed, qpc, picked, fetched>>
usageVars == <<state_writes, state_readers, saved_rows, visited>>
selectVars == <<caller, pool_arg, static_proxy, spc, proxy_choice>>
collectVars == <<cpc, cycle, cycle_pool, ping_sem, pings_waiting,
                 pings_in_flight, pings_ok, pings_caught>>
managerVars == <<ai_instance, ai_client, init_runs, init_raised, ai_calls,
                 contacts, last_completion>>
csvVars == <<csv_exists, csv_file, saves, headers_written>>
toolVars == <<collectVars, managerVars, csvVars>>
nonPoolVars == <<appVars, scoreVars, fastVars, browserVars, fetchVars,
    usageVars, selectVars,
    toolVars>>
nonAppVars == <<poolVars, scoreVars, fastVars, browserVars, fetchVars,
    selectVars,
    toolVars>>
nonScoreVars == <<poolVars, appVars, fastVars, browserVars, fetchVars,
    usageVars, selectVars,
    toolVars>>
nonFastVars == <<poolVars, appVars, scoreVars, browserVars, fetchVars,
    usageVars, selectVars,
    toolVars>>
nonBrowserVars == <<poolVars, appVars, scoreVars, fastVars, fetchVars,
    usageVars, selectVars,
    toolVars>>
nonFetchVars == <<poolVars, appVars, scoreVars, fastVars, browserVars,
    usageVars, selectVars,
    toolVars>>
nonSelectVars == <<poolVars, appVars, scoreVars, fastVars, browserVars,
    fetchVars, usageVars, toolVars>>
nonCollectVars == <<poolVars, appVars, scoreVars, fastVars, browserVars,
    fetchVars, usageVars, selectVars, managerVars, csvVars>>
nonManagerVars == <<poolVars, appVars, scoreVars, fastVars, browserVars,
    fetchVars, usageVars, selectVars, collectVars, csvVars>>
nonCsvVars == <<poolVars, appVars, scoreVars, fastVars, browserVars,
    fetchVars, usageVars, selectVars, collectVars, managerVars>>
vars == <<poolVars, appVars, scoreVars, fastVars, browserVars, fetchVars,
          usageVars, selectVars,
    toolVars>>

(***************************************************************************)
(* Proxy rater: data.                                                      *)
(***************************************************************************)
\* the "ip:port" strings the provider can list
ProviderEntries == {"10.0.0.1:1", "10.0.0.2:2"}

\* f"http://{p['proxy']}"
ProxyUrl(p) == [scheme |-> "http://", hostport |-> p]

Latencies == {k * LatencyStep : k \in 0..MaxLatencySteps}

Max(a, b) == IF a >= b THEN a ELSE b
Min(a, b) == IF a <= b THEN a ELSE b

\* faulty variant: the score is not clamped at 0
RawScoreUnclamped(latency) == ScoreTop - latency * ScorePerTick

\* max(0.0, 100 - (latency * 20)), in thousandths
RawScore(latency) == Max(0, ScoreTop - latency * ScorePerTick)

\* round(x, 2): thousandths to the nearest hundredth (RawScore is even, so
\* no value lies halfway)
Round2(x) == IF x >= 0 THEN (x + 5) \div 10 ELSE -((5 - x) \div 10)

\* the "score" entry of the returned dict, in hundredths
Score(latency) == Round2(RawScore(latency))

\* the dict returned on HTTP 200
OkResult(proxy, latency) ==
    [kind |-> "dict", proxy |-> proxy, latency |-> latency,
     score |-> Score(latency), status |-> "ok"]

\* the dict returned when the loop is exhausted
FailedResult(proxy) ==
    [kind |-> "dict", proxy |-> proxy, latency |-> InfLatency,
     score |-> 0, status |-> "failed"]

\* an exception object gathered with return_exceptions=True
ExceptionResult(proxy) ==
    [kind |-> "exception", proxy |-> proxy, latency |-> InfLatency,
     score |-> 0, status |-> "none"]

\* slot of a task that has not finished
Pending(proxy) ==
    [kind |-> "pending", proxy |-> proxy, latency |-> InfLatency,
     score |-> 0, status |-> "none"]

(***************************************************************************)
(* Proxy rater: pure helpers.                                              *)
(***************************************************************************)
Injective(f) == \A a, b \in DOMAIN f : f[a] = f[b] => a = b

\* faulty variant: positions are drawn with replacement
SamplePositionsWithReplacement(n, k) == [1..k -> 1..n]

\* the positions random.sample draws from a list of n: k of them, without
\* replacement, in any order
SamplePositions(n, k) == {g \in [1..k -> 1..n] : Injective(g)}

\* random.sample(s, k): k positions of s drawn without replacement, any order
Samples(s, k) ==
    { [i \in 1..k |-> s[f[i]]] : f \in SamplePositions(Len(s), k) }

\* what the provider can answer: a failure, or a list of "ip:port" entries
ProviderAnswers ==
    {[ok |-> FALSE, proxies |-> <<>>]} \cup
    {[ok |-> TRUE, proxies |-> s] :
        s \in UNION {[1..n -> ProviderEntries] : n \in 0..MaxFeed}}

\* fetch_proxy_list(limit): every failure is caught and gives []
FetchProxyList(answer, limit) ==
    IF ~answer.ok
    THEN {<<>>}
    ELSE LET proxies == [i \in 1..Len(answer.proxies) |->
                            ProxyUrl(answer.proxies[i])]
         IN  Samples(proxies, Min(limit, Len(proxies)))

\* faulty variant: gather without return_exceptions lets a task's exception out
GatherPropagate(res) ==
    [raised |-> \E i \in DOMAIN res : res[i].kind = "exception",
     value |-> res]

\* asyncio.gather(*tasks, return_exceptions=True): task exceptions are values
Gather(res) == [raised |-> FALSE, value |-> res]

\* faulty variant: the status test is dropped from the filter
IsValidAnyDict(r) == r.kind = "dict"

\* the loop "for res in results": keep dicts whose status is "ok"
IsValid(r) == r.kind = "dict" /\ r.status = "ok"

\* faulty variant: every "ok" dict is appended twice
FilterValidTwice(res) == SelectSeq(res, IsValid) \o SelectSeq(res, IsValid)

\* faulty variant: the filter loop stops at the first exception
FilterUntilException(res) ==
    LET bad == {i \in DOMAIN res : res[i].kind = "exception"}
    IN  IF bad = {}
        THEN SelectSeq(res, IsValid)
        ELSE SelectSeq(SubSeq(res, 1,
                 (CHOOSE i \in bad : \A j \in bad : i <= j) - 1), IsValid)

\* "for res in results": "ok" dicts are appended in order, exceptions are
\* logged and skipped, everything else is skipped
FilterValid(res) == SelectSeq(res, IsValid)

\* list.sort(key=score, reverse=True) is stable: x goes after every entry
\* whose score is >= its own
RECURSIVE InsertByScore(_, _)
InsertByScore(x, s) ==
    IF s = <<>> THEN <<x>>
    ELSE IF Head(s).score >= x.score
         THEN <<Head(s)>> \o InsertByScore(x, Tail(s))
         ELSE <<x>> \o s

RECURSIVE SortByScore(_)
SortByScore(s) ==
    IF s = <<>> THEN <<>>
    ELSE InsertByScore(s[Len(s)], SortByScore(SubSeq(s, 1, Len(s) - 1)))

\* faulty variant: the sort is left out
SortPoolSkipped(valid) == valid

\* lines "if valid_proxies: valid_proxies.sort(...)"
SortPool(valid) == IF valid # <<>> THEN SortByScore(valid) ELSE valid

\* the value build_rated_proxy_pool returns for gathered results res
PublishPool(res) == SortPool(FilterValid(res))

(***************************************************************************)
(* Proxy rater: build_rated_proxy_pool and its probe tasks.                *)
(***************************************************************************)
Tasks == DOMAIN tpc

\* the candidates inside "async with sem"
InProgress == {i \in Tasks : tpc[i] \in {"loop", "sleep"}}

InitPoolVars ==
    /\ fetch_limit \in 0..MaxFeed
    /\ max_concurrent \in 1..MaxConcurrent
    /\ num_retries \in 0..MaxRetries
    /\ provider \in ProviderAnswers
    /\ bpc = "fetch"
    /\ raw_proxies = <<>>
    /\ sem = 0
    /\ tpc = <<>>
    /\ attempt = <<>>
    /\ results = <<>>
    /\ valid_proxies = <<>>
    /\ build_status = "running"

\* raw_proxies = await fetch_proxy_list(...); if not raw_proxies: return [];
\* sem = asyncio.Semaphore(max_concurrent); tasks = [...]
BuildFetch ==
    /\ bpc = "fetch"
    /\ \E raw \in FetchProxyList(provider, fetch_limit) :
        /\ raw_proxies' = raw
        /\ IF raw = <<>>
           THEN /\ bpc' = "done"
                /\ build_status' = "returned"
                /\ UNCHANGED <<sem, tpc, attempt, results>>
           ELSE /\ bpc' = "gather"
                /\ sem' = max_concurrent
                /\ tpc' = [i \in 1..Len(raw) |-> "new"]
                /\ attempt' = [i \in 1..Len(raw) |-> 0]
                /\ results' = [i \in 1..Len(raw) |-> Pending(raw[i])]
                /\ UNCHANGED build_status
    /\ UNCHANGED <<fetch_limit, max_concurrent, num_retries, provider,
                   valid_proxies>>
    /\ UNCHANGED nonPoolVars

\* faulty variant: tasks are admitted without regard to the semaphore
SemFreeAlways == TRUE

\* whether "async with sem" may admit a task
SemFree == sem > 0

\* async with sem: (entry)
Acquire(i) ==
    /\ bpc = "gather"
    /\ tpc[i] = "new"
    /\ SemFree
    /\ sem' = sem - 1
    /\ tpc' = [tpc EXCEPT ![i] = "loop"]
    /\ UNCHANGED <<fetch_limit, max_concurrent, num_retries, provider, bpc,
                   raw_proxies, attempt, results, valid_proxies,
                   build_status>>
    /\ UNCHANGED nonPoolVars

\* faulty variant: the loop allows one attempt too many
LoopHasNextOffByOne(i) == attempt[i] <= num_retries

\* "for _ in range(retries)": another iteration is left
LoopHasNext(i) == attempt[i] < num_retries

\* faulty variant: the "ok" dict is recorded but the loop is not left
ProbeOkNoStop(i) ==
    /\ tpc[i] = "loop"
    /\ LoopHasNext(i)
    /\ \E latency \in Latencies :
        results' = [results EXCEPT ![i] = OkResult(raw_proxies[i], latency)]
    /\ attempt' = [attempt EXCEPT ![i] = @ + 1]
    /\ UNCHANGED <<fetch_limit, max_concurrent, num_retries, provider, bpc,
                   raw_proxies, sem, tpc, valid_proxies, build_status>>
    /\ UNCHANGED nonPoolVars

\* an attempt answered with HTTP 200: return the "ok" dict, leaving the
\* semaphore
ProbeOk(i) ==
    /\ tpc[i] = "loop"
    /\ LoopHasNext(i)
    /\ \E latency \in Latencies :
        results' = [results EXCEPT ![i] = OkResult(raw_proxies[i], latency)]
    /\ attempt' = [attempt EXCEPT ![i] = @ + 1]
    /\ tpc' = [tpc EXCEPT ![i] = "done"]
    /\ sem' = sem + 1
    /\ UNCHANGED <<fetch_limit, max_concurrent, num_retries, provider, bpc,
                   raw_proxies, valid_proxies, build_status>>
    /\ UNCHANGED nonPoolVars

\* an attempt answered with another status code: the loop goes on at once
ProbeNon200(i) ==
    /\ tpc[i] = "loop"
    /\ LoopHasNext(i)
    /\ attempt' = [attempt EXCEPT ![i] = @ + 1]
    /\ UNCHANGED <<fetch_limit, max_concurrent, num_retries, provider, bpc,
                   raw_proxies, sem, tpc, results, valid_proxies,
                   build_status>>
    /\ UNCHANGED nonPoolVars

\* except (httpx.RequestError, asyncio.TimeoutError): await asyncio.sleep(0.5)
ProbeRequestError(i) ==
    /\ tpc[i] = "loop"
    /\ LoopHasNext(i)
    /\ attempt' = [attempt EXCEPT ![i] = @ + 1]
    /\ tpc' = [tpc EXCEPT ![i] = "sleep"]
    /\ UNCHANGED <<fetch_limit, max_concurrent, num_retries, provider, bpc,
                   raw_proxies, sem, results, valid_proxies,
                   build_status>>
    /\ UNCHANGED nonPoolVars

\* the backoff sleep is over: continue
BackoffDone(i) ==
    /\ tpc[i] = "sleep"
    /\ tpc' = [tpc EXCEPT ![i] = "loop"]
    /\ UNCHANGED <<fetch_limit, max_concurrent, num_retries, provider, bpc,
                   raw_proxies, sem, attempt, results, valid_proxies,
                   build_status>>
    /\ UNCHANGED nonPoolVars

\* faulty variant: a task that raises keeps its permit
ProbeRaiseKeepsPermit(i) ==
    /\ tpc[i] = "loop"
    /\ LoopHasNext(i)
    /\ attempt' = [attempt EXCEPT ![i] = @ + 1]
    /\ results' = [results EXCEPT ![i] = ExceptionResult(raw_proxies[i])]
    /\ tpc' = [tpc EXCEPT ![i] = "done"]
    /\ UNCHANGED <<fetch_limit, max_concurrent, num_retries, provider, bpc,
                   raw_proxies, sem, valid_proxies, build_status>>
    /\ UNCHANGED nonPoolVars

\* an attempt raises anything else (not caught): the task ends with the
\* exception, "async with" releases the semaphore
ProbeRaise(i) ==
    /\ tpc[i] = "loop"
    /\ LoopHasNext(i)
    /\ attempt' = [attempt EXCEPT ![i] = @ + 1]
    /\ results' = [results EXCEPT ![i] = ExceptionResult(raw_proxies[i])]
    /\ tpc' = [tpc EXCEPT ![i] = "done"]
    /\ sem' = sem + 1
    /\ UNCHANGED <<fetch_limit, max_concurrent, num_retries, provider, bpc,
                   raw_proxies, valid_proxies, build_status>>
    /\ UNCHANGED nonPoolVars

\* range(retries) is exhausted: leave the semaphore, return the "failed" dict
ProbeExhausted(i) ==
    /\ tpc[i] = "loop"
    /\ ~LoopHasNext(i)
    /\ results' = [results EXCEPT ![i] = FailedResult(raw_proxies[i])]
    /\ tpc' = [tpc EXCEPT ![i] = "done"]
    /\ sem' = sem + 1
    /\ UNCHANGED <<fetch_limit, max_concurrent, num_retries, provider, bpc,
                   raw_proxies, attempt, valid_proxies, build_status>>
    /\ UNCHANGED nonPoolVars

\* results = await asyncio.gather(...), the filter loop, the sort, the return
BuildCollect ==
    /\ bpc = "gather"
    /\ \A i \in Tasks : tpc[i] = "done"
    /\ LET g == Gather(results)
       IN  IF g.raised
           THEN /\ build_status' = "raised"
                /\ UNCHANGED valid_proxies
           ELSE /\ build_status' = "returned"
                /\ valid_proxies' = PublishPool(g.value)
    /\ bpc' = "done"
    /\ UNCHANGED <<fetch_limit, max_concurrent, num_retries, provider,
                   raw_proxies, sem, tpc, attempt, results>>
    /\ UNCHANGED nonPoolVars

NextPool ==
    \/ BuildFetch
    \/ \E i \in Tasks : Acquire(i)
    \/ \E i \in Tasks : ProbeOk(i)
    \/ \E i \in Tasks : ProbeNon200(i)
    \/ \E i \in Tasks : ProbeRequestError(i)
    \/ \E i \in Tasks : BackoffDone(i)
    \/ \E i \in Tasks : ProbeRaise(i)
    \/ \E i \in Tasks : ProbeExhausted(i)
    \/ BuildCollect

\* self.state = {} in __init__: nothing written by run(), nothing read
InitUsage ==
    /\ state_writes = 0
    /\ state_readers = {}
    /\ saved_rows = 0
    /\ visited = 0

InitIdleApp ==
    /\ InitUsage
    /\ settings = [USE_FREE_PROXIES |-> TRUE, static_proxy |-> FALSE]
    /\ engine = "yandex"
    /\ mpc = "start"
    /\ caught = "none"
    /\ proxy_pool = <<>>
    /\ rpc = "idle"
    /\ state = [set |-> FALSE, success |-> FALSE]
    /\ search_result = [status |-> "none"]
    /\ browser_result = [status |-> "none"]
    /\ parsed_data = <<>>
    /\ log = <<>>

\* the score table at rest
InitIdleScore ==
    /\ probe_latency = <<0, 0>>
    /\ probe_score = <<0, 0>>
    /\ scored = {}

\* perform_http_search not called
InitIdleFast ==
    /\ captcha_keywords = <<>>
    /\ server = [error |-> TRUE, status_code |-> 0, text |-> <<>>]
    /\ archive_writable = TRUE
    /\ fpc = "get"
    /\ kw_index = 1
    /\ html_content = <<>>
    /\ archives = [captcha |-> <<>>, success |-> <<>>]
    /\ fast_result = [end |-> "none", status |-> "none"]

\* no browser handler called
InitIdleBrowser ==
    /\ flow = "warmup"
    /\ profile = 1
    /\ hpc = "launch"
    /\ browser = "none"
    /\ failed_step = "none"
    /\ handler_result = [end |-> "none", tag |-> "none", user_agent |-> 0,
                         parsed |-> 0]
    /\ steps = <<>>
    /\ selectors = 0
    /\ sel_index = 1
    /\ tried = <<>>
    /\ clicks = <<>>
    /\ marker = "unknown"
    /\ is_solved = "none"

\* fetch_proxy_list not called on its own
InitIdleFetch ==
    /\ list_limit = 0
    /\ feed = [ok |-> FALSE, proxies |-> <<>>]
    /\ qpc = "get"
    /\ picked = <<>>
    /\ fetched = <<>>

\* no proxy selected
NoProxy == [kind |-> "none", entry |-> 0]

InitIdleSelect ==
    /\ caller = "none"
    /\ pool_arg = <<>>
    /\ static_proxy = [host |-> FALSE, user |-> FALSE]
    /\ spc = "done"
    /\ proxy_choice = NoProxy

\* the collector not started
InitIdleCollect ==
    /\ cpc = "build"
    /\ cycle = 0
    /\ cycle_pool = 0
    /\ ping_sem = 0
    /\ pings_waiting = 0
    /\ pings_in_flight = 0
    /\ pings_ok = 0
    /\ pings_caught = 0

\* AIManager._instance = None
InitIdleManager ==
    /\ ai_instance = "none"
    /\ ai_client = "unset"
    /\ init_runs = 0
    /\ init_raised = FALSE
    /\ ai_calls = [constructions |-> 0, completions |-> 0]
    /\ contacts = 0
    /\ last_completion = [kind |-> "none", result |-> "none"]

\* no results log written
InitIdleCsv ==
    /\ csv_exists = FALSE
    /\ csv_file = <<>>
    /\ saves = 0
    /\ headers_written = 0

InitIdleTools == InitIdleCollect /\ InitIdleManager /\ InitIdleCsv

InitIdleRest ==
    /\ InitIdleScore /\ InitIdleFast /\ InitIdleBrowser /\ InitIdleFetch
    /\ InitIdleSelect
    /\ InitIdleTools

InitPool == InitPoolVars /\ InitIdleApp /\ InitIdleRest

SpecPool == InitPool /\ [][NextPool]_vars

\* the event loop runs every task that is ready, a released permit wakes a
\* waiting task, and every request ends (timeout=7): a step that can be
\* taken is taken
SpecPoolFair == SpecPool /\ WF_vars(NextPool)

(***************************************************************************)
(* Entry point and workflow: data.                                         *)
(***************************************************************************)
\* longest list of parsed results tried
MaxParsed == 2

\* keys of settings.SEARCH_ENGINES
SearchEngines == {"google", "yandex"}

\* values tried for --engine
EngineArgs == SearchEngines \cup {"bing"}

Ev(e, p) == [ev |-> e, ph |-> p]

Count(e, p) == Cardinality({k \in DOMAIN log : log[k] = Ev(e, p)})

\* what warmup_session_and_get_state returns
WarmupStates == {[set |-> TRUE, success |-> TRUE],
                 [set |-> TRUE, success |-> FALSE]}

\* what parse_with_selectors can return
ParsedLists == {[i \in 1..n |-> i] : n \in 0..MaxParsed}

\* how one probe task can end
ProbeOutcomes ==
    {[end |-> "ok", latency |-> l] : l \in Latencies} \cup
    {[end |-> "failed", latency |-> InfLatency],
     [end |-> "exception", latency |-> InfLatency]}

ResultOf(proxy, r) ==
    IF r.end = "failed" THEN FailedResult(proxy)
    ELSE IF r.end = "exception" THEN ExceptionResult(proxy)
    ELSE OkResult(proxy, r.latency)

\* the values build_rated_proxy_pool returns for candidates raw
PoolsOf(raw) ==
    IF raw = <<>>
    THEN {<<>>}
    ELSE { PublishPool(Gather([i \in 1..Len(raw) |->
                                  ResultOf(raw[i], f[i])]).value) :
           f \in [1..Len(raw) -> ProbeOutcomes] }

\* every value build_rated_proxy_pool() can return to main_async_logic
BuiltPools ==
    UNION { UNION { PoolsOf(raw) : raw \in FetchProxyList(answer, MaxFeed) }
          : answer \in ProviderAnswers }

(***************************************************************************)
(* Entry point: start and main_async_logic.                                *)
(***************************************************************************)
InitIdlePool ==
    /\ fetch_limit = 0
    /\ max_concurrent = 1
    /\ num_retries = 0
    /\ provider = [ok |-> FALSE, proxies |-> <<>>]
    /\ bpc = "fetch"
    /\ raw_proxies = <<>>
    /\ sem = 0
    /\ tpc = <<>>
    /\ attempt = <<>>
    /\ results = <<>>
    /\ valid_proxies = <<>>
    /\ build_status = "running"

InitApp ==
    /\ settings \in [USE_FREE_PROXIES : BOOLEAN, static_proxy : BOOLEAN]
    /\ engine \in EngineArgs
    /\ mpc = "start"
    /\ caught = "none"
    /\ proxy_pool = <<>>
    /\ rpc = "idle"
    /\ state = [set |-> FALSE, success |-> FALSE]
    /\ search_result = [status |-> "none"]
    /\ browser_result = [status |-> "none"]
    /\ parsed_data = <<>>
    /\ log = <<>>
    /\ InitUsage
    /\ InitIdlePool
    /\ InitIdleRest

\* faulty variant: start handles the interrupt only
StartCatchesInterruptOnly(exc) == exc = "KeyboardInterrupt"

\* the except clauses of start's try block: "except KeyboardInterrupt" and
\* "except Exception", which takes typer.Exit (a RuntimeError) and every
\* error a phase lets through (Playwright Error, OSError)
StartCatches(exc) == exc = "KeyboardInterrupt" \/ exc \in {"Exit", "Error"}

\* where start ends when exc is raised inside its try block
EndOfStart(exc) == IF StartCatches(exc) THEN "done" ELSE "crashed"

\* if engine.lower() not in settings.SEARCH_ENGINES: raise typer.Exit(code=1);
\* the Exit is a RuntimeError and lands in "except Exception"
MainCheckEngine ==
    /\ mpc = "start"
    /\ IF engine \in SearchEngines
       THEN /\ mpc' = "logic"
            /\ UNCHANGED caught
       ELSE /\ mpc' = EndOfStart("Exit")
            /\ caught' = IF StartCatches("Exit") THEN "exit" ELSE caught
    /\ UNCHANGED <<settings, engine, proxy_pool, rpc, state, search_result,
                   browser_result, parsed_data, log>>
    /\ UNCHANGED usageVars
    /\ UNCHANGED nonAppVars

\* "if not proxy_pool:" after build_rated_proxy_pool()
PoolUsable(pool) == pool # <<>>

\* proxy_pool = []; if settings.USE_FREE_PROXIES: proxy_pool = await
\* build_rated_proxy_pool(); if not proxy_pool: raise typer.Exit(code=1)
MainBuildPool ==
    /\ mpc = "logic"
    /\ IF settings.USE_FREE_PROXIES
       THEN \E pool \in BuiltPools :
               /\ proxy_pool' = pool
               /\ IF PoolUsable(pool)
                  THEN /\ mpc' = "app"
                       /\ UNCHANGED caught
                  ELSE /\ mpc' = EndOfStart("Exit")
                       /\ caught' = IF StartCatches("Exit")
                                    THEN "exit" ELSE caught
       ELSE /\ proxy_pool' = <<>>
            /\ mpc' = "app"
            /\ UNCHANGED caught
    /\ UNCHANGED <<settings, engine, rpc, state, search_result,
                   browser_result, parsed_data, log>>
    /\ UNCHANGED usageVars
    /\ UNCHANGED nonAppVars

\* app.run() has returned, or raised into "except Exception"
MainFinish ==
    /\ mpc = "app"
    /\ rpc \in {"complete", "raised"}
    /\ mpc' = IF rpc = "raised" THEN EndOfStart("Error") ELSE "done"
    /\ caught' = IF rpc = "raised" /\ StartCatches("Error")
                 THEN "exception" ELSE caught
    /\ UNCHANGED <<settings, engine, proxy_pool, rpc, state, search_result,
                   browser_result, parsed_data, log>>
    /\ UNCHANGED usageVars
    /\ UNCHANGED nonAppVars

(***************************************************************************)
(* SearchApp.run and its phases.                                           *)
(***************************************************************************)
\* the event of entering phase p; "complete" is no phase
CallOf(p) == IF p = "complete" THEN <<>> ELSE <<Ev("call", p)>>

\* faulty variant: the warm-up is started as a task and not awaited
RunStartNoAwait ==
    /\ mpc = "app"
    /\ rpc = "idle"
    /\ rpc' = "fast"
    /\ log' = log \o <<Ev("call", "warmup"), Ev("call", "fast")>>
    /\ UNCHANGED <<settings, engine, mpc, caught, proxy_pool, state,
                   search_result, browser_result, parsed_data>>
    /\ UNCHANGED usageVars
    /\ UNCHANGED nonAppVars

\* app = SearchApp(...); await app.run(): _warmup_session is awaited first
RunStart ==
    /\ mpc = "app"
    /\ rpc = "idle"
    /\ rpc' = "warmup"
    /\ log' = log \o <<Ev("call", "warmup")>>
    /\ UNCHANGED <<settings, engine, mpc, caught, proxy_pool, state,
                   search_result, browser_result, parsed_data>>
    /\ UNCHANGED usageVars
    /\ UNCHANGED nonAppVars

\* faulty variant: the warm-up's success flag is not tested
AfterWarmupIgnoreFailure(st) == "fast"

\* "if not self.state.get('success')": the phase run() enters after warm-up
AfterWarmup(st) == IF st.success THEN "fast" ELSE "complete"

\* warmup_session_and_get_state returns; run() returns or starts the fast path
WarmupReturn ==
    /\ rpc = "warmup"
    /\ \E st \in WarmupStates :
        /\ state' = st
        /\ rpc' = AfterWarmup(st)
        /\ log' = log \o <<Ev("return", "warmup")>> \o CallOf(AfterWarmup(st))
    /\ state_writes' = state_writes + 1
    /\ UNCHANGED <<state_readers, saved_rows, visited>>
    /\ UNCHANGED <<settings, engine, mpc, caught, proxy_pool, search_result,
                   browser_result, parsed_data>>
    /\ UNCHANGED nonAppVars

\* warmup_session_and_get_state raises (launch, new_context and new_page are
\* outside its try; only playwright's Error is caught inside)
WarmupRaise ==
    /\ rpc = "warmup"
    /\ rpc' = "raised"
    /\ log' = log \o <<Ev("raise", "warmup")>>
    /\ UNCHANGED <<settings, engine, mpc, caught, proxy_pool, state,
                   search_result, browser_result, parsed_data>>
    /\ UNCHANGED usageVars
    /\ UNCHANGED nonAppVars

\* faulty variant: the whole pool counts as its top quartile
TopProxiesWholePool(pool) == pool

\* proxy_pool[: max(1, len(proxy_pool) // 4)], the top quartile of a pool
TopProxies(pool) ==
    SubSeq(pool, 1, Min(Len(pool), Max(1, Len(pool) \div 4)))

\* faulty variant: the pool is cut down to its top quartile in place
PoolAfterSliceInPlace(pool) == TopProxies(pool)

\* the pool after a phase has indexed it, sliced it (a slice is a copy) or
\* drawn from it with random.choice: the list itself is as before
PoolAfterSlice(pool) == pool

\* perform_http_search: the headers are built from state["user_agent"] and
\* state["cookie_header"], a proxy is drawn from the pool's top quartile,
\* and after human_sleep, resp = await session.get(...)
FastGet ==
    /\ rpc = "fast"
    /\ rpc' = "fast_get"
    /\ log' = log \o <<Ev("get", "fast")>>
    /\ state_readers' = state_readers \cup {"fast"}
    /\ proxy_pool' = PoolAfterSlice(proxy_pool)
    /\ UNCHANGED <<state_writes, saved_rows, visited>>
    /\ UNCHANGED <<settings, engine, mpc, caught, state,
                   search_result, browser_result, parsed_data>>
    /\ UNCHANGED nonAppVars

\* faulty variant: an "error" outcome escalates to the browser as well
NextPhaseEscalateError(status) ==
    IF status = "success" THEN "process" ELSE "fallback"

\* faulty variant: an "error" outcome makes run() try the fast path again
NextPhaseRetryError(status) ==
    IF status = "success" THEN "process"
    ELSE IF status = "captcha" THEN "fallback"
    ELSE "fast"

\* the if / elif chain of run() on search_result["status"]
NextPhase(status) ==
    IF status = "success" THEN "process"
    ELSE IF status = "captcha" THEN "fallback"
    ELSE "complete"

\* perform_http_search returns its tag; run() branches on it (on "success" it
\* parses the page and hands the rows to process_successful_results)
FastReturn ==
    /\ rpc = "fast_get"
    /\ \E tag \in {"success", "captcha", "error"} :
        /\ search_result' = [status |-> tag]
        /\ rpc' = NextPhase(tag)
        /\ log' = log \o <<Ev("return", "fast")>> \o CallOf(NextPhase(tag))
        /\ IF tag = "success"
           THEN parsed_data' \in ParsedLists
           ELSE UNCHANGED parsed_data
    /\ UNCHANGED <<settings, engine, mpc, caught, proxy_pool, state,
                   browser_result>>
    /\ UNCHANGED usageVars
    /\ UNCHANGED nonAppVars

\* perform_http_search raises: only errors.RequestsError is caught, a failed
\* archive write (OSError) is not
FastRaise ==
    /\ rpc = "fast_get"
    /\ rpc' = "raised"
    /\ log' = log \o <<Ev("raise", "fast")>>
    /\ UNCHANGED <<settings, engine, mpc, caught, proxy_pool, state,
                   search_result, browser_result, parsed_data>>
    /\ UNCHANGED usageVars
    /\ UNCHANGED nonAppVars

\* faulty variant: the fallback's status is not tested
AfterFallbackAlwaysProcess(status) == "process"

\* "if browser_result['status'] == 'success'" in _handle_captcha_with_browser
AfterFallback(status) == IF status = "success" THEN "process" ELSE "complete"

\* run_full_browser_flow returns; on success its rows go to
\* process_successful_results, otherwise the error is logged. A flow that
\* returns has passed new_context(user_agent=initial_state["user_agent"])
FallbackReturn ==
    /\ rpc = "fallback"
    /\ \E status \in {"success", "error"} :
        /\ browser_result' = [status |-> status]
        /\ rpc' = AfterFallback(status)
        /\ log' = log \o <<Ev("return", "fallback")>>
                      \o CallOf(AfterFallback(status))
        /\ IF status = "success"
           THEN parsed_data' \in ParsedLists
           ELSE UNCHANGED parsed_data
    /\ state_readers' = state_readers \cup {"fallback"}
    /\ UNCHANGED <<state_writes, saved_rows, visited>>
    /\ UNCHANGED <<settings, engine, mpc, caught, proxy_pool, state,
                   search_result>>
    /\ UNCHANGED nonAppVars

\* run_full_browser_flow raises (the launch is outside its try; the screenshot
\* in its except block can fail); the state was read if the launch succeeded
FallbackRaise ==
    /\ rpc = "fallback"
    /\ rpc' = "raised"
    /\ log' = log \o <<Ev("raise", "fallback")>>
    /\ \E launched \in BOOLEAN :
          state_readers' = IF launched THEN state_readers \cup {"fallback"}
                           ELSE state_readers
    /\ UNCHANGED <<state_writes, saved_rows, visited>>
    /\ UNCHANGED <<settings, engine, mpc, caught, proxy_pool, state,
                   search_result, browser_result, parsed_data>>
    /\ UNCHANGED nonAppVars

\* parsed_data[:10], the rows displayed, saved and visited
TopN == 10
TopRows(parsed) == Min(Len(parsed), TopN)

\* what process_successful_results can have done when it ends: "if not
\* parsed_data: return" does nothing; otherwise save_to_csv writes up to
\* TopRows rows (its failures are caught and logged) and
\* visit_urls_and_screenshot navigates to up to TopRows URLs
ProcessEffects(parsed) ==
    IF parsed = <<>>
    THEN {[saved |-> 0, visits |-> 0]}
    ELSE [saved : 0..TopRows(parsed), visits : 0..TopRows(parsed)]

\* faulty variant: a page without results is escalated to the browser
AfterProcessEscalateEmpty(parsed) ==
    IF parsed = <<>> THEN "fallback" ELSE "complete"

\* what run() does after process_successful_results returned: nothing is
\* left but the completion log, whatever was parsed
AfterProcess(parsed) == "complete"

\* process_successful_results returns; run() logs completion
ProcessReturn ==
    /\ rpc = "process"
    /\ rpc' = AfterProcess(parsed_data)
    /\ log' = log \o <<Ev("return", "process")>>
                  \o CallOf(AfterProcess(parsed_data))
    /\ \E e \in ProcessEffects(parsed_data) :
          /\ saved_rows' = saved_rows + e.saved
          /\ visited' = visited + e.visits
    /\ UNCHANGED <<state_writes, state_readers>>
    /\ UNCHANGED <<settings, engine, mpc, caught, proxy_pool, state,
                   search_result, browser_result, parsed_data>>
    /\ UNCHANGED nonAppVars

\* process_successful_results raises: typer.echo, the start of
\* async_playwright() and the browser.close() of the visit's finally clause
\* stand outside every try; none of them is reached with an empty list
ProcessRaise ==
    /\ rpc = "process"
    /\ parsed_data # <<>>
    /\ rpc' = "raised"
    /\ log' = log \o <<Ev("raise", "process")>>
    /\ \E e \in ProcessEffects(parsed_data) :
          /\ saved_rows' = saved_rows + e.saved
          /\ visited' = visited + e.visits
    /\ UNCHANGED <<state_writes, state_readers>>
    /\ UNCHANGED <<settings, engine, mpc, caught, proxy_pool, state,
                   search_result, browser_result, parsed_data>>
    /\ UNCHANGED nonAppVars

NextApp ==
    \/ MainCheckEngine
    \/ MainBuildPool
    \/ MainFinish
    \/ RunStart
    \/ WarmupReturn
    \/ WarmupRaise
    \/ FastGet
    \/ FastReturn
    \/ FastRaise
    \/ FallbackReturn
    \/ FallbackRaise
    \/ ProcessReturn
    \/ ProcessRaise

SpecApp == InitApp /\ [][NextApp]_vars

\* the event loop resumes whatever start awaits, and every awaited call
\* returns or raises: a step that can be taken is taken
SpecAppFair == SpecApp /\ WF_vars(NextApp)

(***************************************************************************)
(* The score of a validated proxy, tabulated for pairs of latencies.       *)
(***************************************************************************)
\* the latencies time.monotonic() differences are drawn from (0 s to ~6 s;
\* the probe's timeout is 7 s)
ScoreInputs == {k * LatencyStep : k \in 0..MaxScoreInputs}

InitScore ==
    /\ probe_latency \in [1..2 -> ScoreInputs]
    /\ probe_score = <<0, 0>>
    /\ scored = {}
    /\ InitIdlePool
    /\ InitIdleApp
    /\ InitIdleFast
    /\ InitIdleBrowser
    /\ InitIdleFetch
    /\ InitIdleSelect
    /\ InitIdleTools

\* the 200 branch for probe i: latency is measured, the score computed and
\* the dict returned
RateProbe(i) ==
    /\ i \notin scored
    /\ probe_score' = [probe_score EXCEPT
           ![i] = OkResult(ProxyUrl("10.0.0.1:1"), probe_latency[i]).score]
    /\ scored' = scored \cup {i}
    /\ UNCHANGED probe_latency
    /\ UNCHANGED nonScoreVars

NextScore == \E i \in 1..2 : RateProbe(i)

SpecScore == InitScore /\ [][NextScore]_vars

(***************************************************************************)
(* Fast path: perform_http_search from the GET on.                         *)
(***************************************************************************)
\* characters of bodies and keywords: two letters, in both cases
Alphabet == {"a", "A", "b", "B"}

\* str.lower() on one character
LowerChar(c) == CASE c = "A" -> "a" [] c = "B" -> "b" [] OTHER -> c

\* str.lower()
Lower(str) == [i \in DOMAIN str |-> LowerChar(str[i])]

\* needle in hay
Contains(hay, needle) ==
    \E off \in 0..(Len(hay) - Len(needle)) :
        SubSeq(hay, off + 1, off + Len(needle)) = needle

\* faulty variant: the body is not lower-cased
MatchesCaseSensitive(keyword, html) == Contains(html, Lower(keyword))

\* keyword.lower() in html_content.lower()
Matches(keyword, html) == Contains(Lower(html), Lower(keyword))

\* response bodies: every string of at most MaxBody characters
Bodies == UNION {[1..n -> Alphabet] : n \in 0..MaxBody}

\* keywords an engine may configure (mixed case, as "SmartCaptcha" is)
KeywordChoices == {<<"a">>, <<"A", "b">>}

\* captcha_keywords lists (engine_config.get("captcha_keywords", []))
KeywordLists == UNION {[1..n -> KeywordChoices] : n \in 0..MaxKeywords}

\* what session.get() can meet: a RequestsError, or a response with any
\* status code and body
ServerAnswers ==
    {[error |-> TRUE, status_code |-> 0, text |-> <<>>]} \cup
    {[error |-> FALSE, status_code |-> c, text |-> t] :
        c \in {200, 429}, t \in Bodies}

\* with open(CAPTCHAS_DIR / ..., "w") as f: f.write(html_content)
WriteCaptcha(a, html) == [a EXCEPT !.captcha = Append(@, html)]

\* faulty variant: the result page is filed under CAPTCHAS_DIR
WriteSuccessMisfiled(a, html) == [a EXCEPT !.captcha = Append(@, html)]

\* with open(SUCCESS_DIR / ..., "w") as f: f.write(html_content)
WriteSuccess(a, html) == [a EXCEPT !.success = Append(@, html)]

InitFast ==
    /\ captcha_keywords \in KeywordLists
    /\ server \in ServerAnswers
    /\ archive_writable \in BOOLEAN
    /\ fpc = "get"
    /\ kw_index = 1
    /\ html_content = <<>>
    /\ archives = [captcha |-> <<>>, success |-> <<>>]
    /\ fast_result = [end |-> "none", status |-> "none"]
    /\ InitIdlePool
    /\ InitIdleApp
    /\ InitIdleScore
    /\ InitIdleBrowser
    /\ InitIdleFetch
    /\ InitIdleSelect
    /\ InitIdleTools

\* faulty variant: a status code other than 200 is reported as "error"
SearchRequestChecksStatus ==
    /\ fpc = "get"
    /\ IF server.error \/ server.status_code # 200
       THEN /\ fast_result' = [end |-> "returned", status |-> "error"]
            /\ fpc' = "done"
            /\ UNCHANGED html_content
       ELSE /\ html_content' = server.text
            /\ fpc' = "scan"
            /\ UNCHANGED fast_result
    /\ UNCHANGED <<captcha_keywords, server, archive_writable, kw_index,
                   archives>>
    /\ UNCHANGED nonFastVars

\* resp = await session.get(...); html_content = resp.text; a RequestsError
\* is caught and reported as "error"
SearchRequest ==
    /\ fpc = "get"
    /\ IF server.error
       THEN /\ fast_result' = [end |-> "returned", status |-> "error"]
            /\ fpc' = "done"
            /\ UNCHANGED html_content
       ELSE /\ html_content' = server.text
            /\ fpc' = "scan"
            /\ UNCHANGED fast_result
    /\ UNCHANGED <<captcha_keywords, server, archive_writable, kw_index,
                   archives>>
    /\ UNCHANGED nonFastVars

\* one iteration of "for keyword in captcha_keywords": on a match the page
\* is archived (open() may raise OSError, which nothing catches) and
\* "captcha" is returned
CaptchaScan ==
    /\ fpc = "scan"
    /\ kw_index <= Len(captcha_keywords)
    /\ IF Matches(captcha_keywords[kw_index], html_content)
       THEN /\ fpc' = "done"
            /\ UNCHANGED kw_index
            /\ IF archive_writable
               THEN /\ archives' = WriteCaptcha(archives, html_content)
                    /\ fast_result' =
                           [end |-> "returned", status |-> "captcha"]
               ELSE /\ fast_result' = [end |-> "raised", status |-> "none"]
                    /\ UNCHANGED archives
       ELSE /\ kw_index' = kw_index + 1
            /\ UNCHANGED <<fpc, archives, fast_result>>
    /\ UNCHANGED <<captcha_keywords, server, archive_writable, html_content>>
    /\ UNCHANGED nonFastVars

\* the loop ended without a match: the page is archived under SUCCESS_DIR
\* and "success" is returned
SuccessCase ==
    /\ fpc = "scan"
    /\ kw_index > Len(captcha_keywords)
    /\ fpc' = "done"
    /\ IF archive_writable
       THEN /\ archives' = WriteSuccess(archives, html_content)
            /\ fast_result' = [end |-> "returned", status |-> "success"]
       ELSE /\ fast_result' = [end |-> "raised", status |-> "none"]
            /\ UNCHANGED archives
    /\ UNCHANGED <<captcha_keywords, server, archive_writable, kw_index,
                   html_content>>
    /\ UNCHANGED nonFastVars

NextFast == SearchRequest \/ CaptchaScan \/ SuccessCase

SpecFast == InitFast /\ [][NextFast]_vars

(***************************************************************************)
(* Browser handlers: warmup_session_and_get_state and                      *)
(* run_full_browser_flow, step by step. A step that can raise does so or   *)
(* not by choice of the environment, and a failing step may leave the      *)
(* browser disconnected. browser is "closed" only through browser.close(). *)
(***************************************************************************)
\* indices into CUSTOM_MOBILE_PROFILES
NumProfiles == 3
Profiles == 1..NumProfiles

NoResult == [end |-> "none", tag |-> "none", user_agent |-> 0, parsed |-> 0]

\* states a launched browser can be in after a step failed
AfterFailure == {"open", "disconnected"}

InitBrowser ==
    /\ flow \in {"warmup", "fallback"}
    /\ profile \in Profiles
    /\ hpc = "launch"
    /\ browser = "none"
    /\ failed_step = "none"
    /\ handler_result = NoResult
    /\ steps = <<>>
    /\ selectors \in 0..MaxSelectors
    /\ sel_index = 1
    /\ tried = <<>>
    /\ clicks = <<>>
    /\ marker = "unknown"
    /\ is_solved = "none"
    /\ InitIdlePool
    /\ InitIdleApp
    /\ InitIdleScore
    /\ InitIdleFast
    /\ InitIdleFetch
    /\ InitIdleSelect
    /\ InitIdleTools

\* the step at hpc has ended, normally or with an exception
Finished(ok) == steps' = Append(steps, [step |-> hpc, ok |-> ok])

\* an exception leaves the handler: nothing is returned
Propagate(step) ==
    /\ hpc' = "done"
    /\ failed_step' = step
    /\ handler_result' = [NoResult EXCEPT !.end = "raised"]
    /\ Finished(FALSE)

\* a step inside the try block raises: control goes to the except clause
ToExcept(step) ==
    /\ hpc' = "except"
    /\ failed_step' = step
    /\ browser' \in AfterFailure
    /\ Finished(FALSE)
    /\ UNCHANGED handler_result

\* a step succeeds and control moves on
Proceed(next) ==
    /\ hpc' = next
    /\ Finished(TRUE)
    /\ UNCHANGED <<browser, failed_step, handler_result>>

\* what a step outside the consent loop and the CAPTCHA check leaves alone
consentVars == <<selectors, sel_index, tried, clicks>>
captchaVars == <<marker, is_solved>>

\* browser = await launch(...), before the try block
Launch(f) ==
    /\ flow = f
    /\ hpc = "launch"
    /\ \/ /\ hpc' = "new_context"
          /\ browser' = "open"
          /\ Finished(TRUE)
          /\ UNCHANGED <<failed_step, handler_result>>
       \/ /\ Propagate("launch")
          /\ UNCHANGED browser
    /\ UNCHANGED <<flow, profile, consentVars, captchaVars>>
    /\ UNCHANGED nonBrowserVars

\* a step between the launch and the try block: its exception propagates
\* and no handler of the function sees it
OutsideTry(f, step, next) ==
    /\ flow = f
    /\ hpc = step
    /\ \/ Proceed(next)
       \/ /\ Propagate(step)
          /\ browser' \in AfterFailure
    /\ UNCHANGED <<flow, profile, consentVars, captchaVars>>
    /\ UNCHANGED nonBrowserVars

\* a step inside the try block
InsideTry(f, step, next) ==
    /\ flow = f
    /\ hpc = step
    /\ \/ Proceed(next)
       \/ ToExcept(step)
    /\ UNCHANGED <<flow, profile, consentVars, captchaVars>>
    /\ UNCHANGED nonBrowserVars

\* what one iteration of a consent loop can meet: the button is not visible;
\* the lookup raises; the click raises (no click made); the button is
\* clicked; or, where the loop waits for the page after the click
\* (wait_for_load_state), the button is clicked and that wait raises
ConsentOutcomes(waits) ==
    {"hidden", "lookup_error", "click_error", "clicked"} \cup
    (IF waits THEN {"clicked_wait_error"} ELSE {})

\* one iteration of "for selector in consent_button_selectors": a click that
\* completes leaves the loop (break); every exception is swallowed by the
\* handler inside the loop, after which the loop goes on to the next selector
ConsentTry(f, next, waits) ==
    /\ flow = f
    /\ hpc = "consent"
    /\ sel_index <= selectors
    /\ tried' = Append(tried, sel_index)
    /\ \E outcome \in ConsentOutcomes(waits) :
          /\ clicks' = IF outcome \in {"clicked", "clicked_wait_error"}
                       THEN Append(clicks, sel_index) ELSE clicks
          /\ IF outcome = "clicked"
             THEN /\ hpc' = next
                  /\ Finished(TRUE)
                  /\ UNCHANGED sel_index
             ELSE /\ sel_index' = sel_index + 1
                  /\ UNCHANGED <<hpc, steps>>
    /\ UNCHANGED <<flow, profile, browser, failed_step, handler_result,
                   selectors, captchaVars>>
    /\ UNCHANGED nonBrowserVars

\* the selector list is exhausted without a break
ConsentEnd(f, next) ==
    /\ flow = f
    /\ hpc = "consent"
    /\ sel_index > selectors
    /\ Proceed(next)
    /\ UNCHANGED <<flow, profile, consentVars, captchaVars>>
    /\ UNCHANGED nonBrowserVars

\* ---- warmup_session_and_get_state ----
WarmLaunch == Launch("warmup")
WarmNewContext == OutsideTry("warmup", "new_context", "new_page")
WarmNewPage == OutsideTry("warmup", "new_page", "goto")
WarmGoto == InsideTry("warmup", "goto", "consent")
WarmConsentTry == ConsentTry("warmup", "gesture", FALSE)
WarmConsentEnd == ConsentEnd("warmup", "gesture")
WarmGesture == InsideTry("warmup", "gesture", "cookies")

\* cookies = await context.cookies(); return {"success": True, ...}
WarmCookies ==
    /\ flow = "warmup"
    /\ hpc = "cookies"
    /\ \/ /\ hpc' = "finally"
          /\ handler_result' = [NoResult EXCEPT !.tag = "success",
                                                !.user_agent = profile]
          /\ Finished(TRUE)
          /\ UNCHANGED <<browser, failed_step>>
       \/ ToExcept("cookies")
    /\ UNCHANGED <<flow, profile, consentVars, captchaVars>>
    /\ UNCHANGED nonBrowserVars

\* except Error as e: return {"success": False, "error": str(e)}
WarmExcept ==
    /\ flow = "warmup"
    /\ hpc = "except"
    /\ hpc' = "finally"
    /\ handler_result' = [NoResult EXCEPT !.tag = "failure"]
    /\ UNCHANGED <<flow, profile, browser, failed_step, steps, consentVars,
                   captchaVars>>
    /\ UNCHANGED nonBrowserVars

\* finally: if browser.is_connected(): await browser.close(); the pending
\* return value is delivered unless close() raises
WarmFinally ==
    /\ flow = "warmup"
    /\ hpc = "finally"
    /\ IF browser = "open"
       THEN \/ /\ browser' = "closed"
               /\ hpc' = "done"
               /\ handler_result' = [handler_result EXCEPT !.end = "returned"]
               /\ Finished(TRUE)
               /\ UNCHANGED failed_step
            \/ /\ Propagate("close")
               /\ UNCHANGED browser
       ELSE /\ hpc' = "done"
            /\ handler_result' = [handler_result EXCEPT !.end = "returned"]
            /\ UNCHANGED <<browser, failed_step, steps>>
    /\ UNCHANGED <<flow, profile, consentVars, captchaVars>>
    /\ UNCHANGED nonBrowserVars

\* ---- run_full_browser_flow ----
FlowLaunch == Launch("fallback")
FlowNewContext == OutsideTry("fallback", "new_context", "new_page")
FlowNewPage == OutsideTry("fallback", "new_page", "goto")
FlowGoto == InsideTry("fallback", "goto", "consent")
FlowConsentTry == ConsentTry("fallback", "captcha", TRUE)
FlowConsentEnd == ConsentEnd("fallback", "captcha")

\* if await captcha_button_locator.count() > 0: with the button on the page
\* the solver is called, without it the flow goes on to the results
FlowCaptchaCheck ==
    /\ flow = "fallback"
    /\ hpc = "captcha"
    /\ \/ /\ marker' = "present"
          /\ Proceed("solve")
       \/ /\ marker' = "absent"
          /\ Proceed("wait")
       \/ /\ ToExcept("captcha")
          /\ UNCHANGED marker
    /\ UNCHANGED <<flow, profile, consentVars, is_solved>>
    /\ UNCHANGED nonBrowserVars

\* is_solved = await solve_yandex_captcha(page); if not is_solved: raise
\* Exception(...); the solver may raise as well
FlowSolve ==
    /\ flow = "fallback"
    /\ hpc = "solve"
    /\ \/ /\ is_solved' = "solved"
          /\ Proceed("wait")
       \/ /\ is_solved' = "unsolved"
          /\ ToExcept("solve")
       \/ /\ ToExcept("solve")
          /\ UNCHANGED is_solved
    /\ UNCHANGED <<flow, profile, consentVars, marker>>
    /\ UNCHANGED nonBrowserVars

FlowWait == InsideTry("fallback", "wait", "parse")

\* html_content = await page.content(); parsed_data = parse_with_selectors()
FlowParse ==
    /\ flow = "fallback"
    /\ hpc = "parse"
    /\ \/ \E n \in 0..MaxParsed :
             /\ hpc' = "close"
             /\ handler_result' = [NoResult EXCEPT !.parsed = n]
             /\ Finished(TRUE)
             /\ UNCHANGED <<browser, failed_step>>
       \/ ToExcept("parse")
    /\ UNCHANGED <<flow, profile, consentVars, captchaVars>>
    /\ UNCHANGED nonBrowserVars

\* await browser.close(); return {"status": "success", ...}, inside the try
FlowClose ==
    /\ flow = "fallback"
    /\ hpc = "close"
    /\ \/ /\ browser' = "closed"
          /\ hpc' = "done"
          /\ handler_result' = [handler_result EXCEPT !.end = "returned",
                                                      !.tag = "success"]
          /\ Finished(TRUE)
          /\ UNCHANGED failed_step
       \/ /\ ToExcept("close")
    /\ UNCHANGED <<flow, profile, consentVars, captchaVars>>
    /\ UNCHANGED nonBrowserVars

\* except Exception as e: with the browser connected the screenshot and the
\* close come first; otherwise {"status": "error", ...} is returned at once
FlowExcept ==
    /\ flow = "fallback"
    /\ hpc = "except"
    /\ IF browser = "open"
       THEN /\ hpc' = "screenshot"
            /\ UNCHANGED handler_result
       ELSE /\ hpc' = "done"
            /\ handler_result' = [NoResult EXCEPT !.end = "returned",
                                                  !.tag = "error"]
    /\ UNCHANGED <<flow, profile, browser, failed_step, steps, consentVars,
                   captchaVars>>
    /\ UNCHANGED nonBrowserVars

\* await page.screenshot(path=...), inside the except clause: its own
\* exception propagates and skips the close
FlowScreenshot ==
    /\ flow = "fallback"
    /\ hpc = "screenshot"
    /\ \/ Proceed("close_err")
       \/ /\ Propagate("screenshot")
          /\ browser' \in AfterFailure
    /\ UNCHANGED <<flow, profile, consentVars, captchaVars>>
    /\ UNCHANGED nonBrowserVars

\* await browser.close() in the except clause, then the error is returned
FlowCloseAfterError ==
    /\ flow = "fallback"
    /\ hpc = "close_err"
    /\ \/ /\ browser' = "closed"
          /\ hpc' = "done"
          /\ handler_result' = [NoResult EXCEPT !.end = "returned",
                                                !.tag = "error"]
          /\ Finished(TRUE)
          /\ UNCHANGED failed_step
       \/ /\ Propagate("close")
          /\ browser' \in AfterFailure
    /\ UNCHANGED <<flow, profile, consentVars, captchaVars>>
    /\ UNCHANGED nonBrowserVars

NextBrowser ==
    \/ WarmLaunch
    \/ WarmNewContext
    \/ WarmNewPage
    \/ WarmGoto
    \/ WarmConsentTry
    \/ WarmConsentEnd
    \/ WarmGesture
    \/ WarmCookies
    \/ WarmExcept
    \/ WarmFinally
    \/ FlowLaunch
    \/ FlowNewContext
    \/ FlowNewPage
    \/ FlowGoto
    \/ FlowConsentTry
    \/ FlowConsentEnd
    \/ FlowCaptchaCheck
    \/ FlowSolve
    \/ FlowWait
    \/ FlowParse
    \/ FlowClose
    \/ FlowExcept
    \/ FlowScreenshot
    \/ FlowCloseAfterError

SpecBrowser == InitBrowser /\ [][NextBrowser]_vars

(***************************************************************************)
(* fetch_proxy_list on its own, with the positions random.sample draws.    *)
(***************************************************************************)
InitFetch ==
    /\ list_limit \in 0..(MaxFeed + 2)
    /\ feed \in ProviderAnswers
    /\ qpc = "get"
    /\ picked = <<>>
    /\ fetched = <<>>
    /\ InitIdlePool
    /\ InitIdleApp
    /\ InitIdleScore
    /\ InitIdleFast
    /\ InitIdleBrowser
    /\ InitIdleSelect
    /\ InitIdleTools

\* resp = await client.get(...); resp.raise_for_status(); data = resp.json():
\* any failure is caught and [] is returned
FetchRequest ==
    /\ qpc = "get"
    /\ IF feed.ok
       THEN /\ qpc' = "sample"
            /\ UNCHANGED fetched
       ELSE /\ qpc' = "done"
            /\ fetched' = <<>>
    /\ UNCHANGED <<list_limit, feed, picked>>
    /\ UNCHANGED nonFetchVars

\* proxies = [f"http://{p['proxy']}" ...];
\* return random.sample(proxies, k=min(limit, len(proxies)))
FetchSample ==
    /\ qpc = "sample"
    /\ LET proxies == [i \in 1..Len(feed.proxies) |->
                          ProxyUrl(feed.proxies[i])]
           k == Min(list_limit, Len(proxies))
       IN  \E f \in SamplePositions(Len(proxies), k) :
               /\ picked' = f
               /\ fetched' = [i \in 1..k |-> proxies[f[i]]]
    /\ qpc' = "done"
    /\ UNCHANGED <<list_limit, feed>>
    /\ UNCHANGED nonFetchVars

NextFetch == FetchRequest \/ FetchSample

SpecFetch == InitFetch /\ [][NextFetch]_vars

(***************************************************************************)
(* The proxy a phase connects through: warm-up takes it from the pool or   *)
(* the static credentials, the fast path draws it from the pool's top      *)
(* quartile and lets the static credentials override it.  A pool entry is  *)
(* identified by its rank in the pool, 1 for the best.                     *)
(***************************************************************************)
\* a rated pool of n entries, best first
RatedPool(n) == [i \in 1..n |-> i]

\* settings.PROXY_HOST and settings.PROXY_USER
StaticConfigured(cfg) == cfg.host /\ cfg.user

PoolProxy(pool, i) == [kind |-> "pool", entry |-> pool[i]]
StaticProxy == [kind |-> "static", entry |-> 0]

InitSelect ==
    /\ caller \in {"warmup", "fast"}
    /\ pool_arg \in {RatedPool(n) : n \in 0..MaxPool}
    /\ static_proxy \in [host : BOOLEAN, user : BOOLEAN]
    /\ spc = "start"
    /\ proxy_choice = NoProxy
    /\ InitIdlePool
    /\ InitIdleApp
    /\ InitIdleScore
    /\ InitIdleFast
    /\ InitIdleBrowser
    /\ InitIdleFetch
    /\ InitIdleTools

\* faulty variant: the static credentials are looked at before the pool
WarmProxyStaticFirst(pool, cfg) ==
    IF StaticConfigured(cfg) THEN StaticProxy
    ELSE IF pool # <<>> THEN PoolProxy(pool, 1)
    ELSE NoProxy

\* if proxy_pool: proxy_pool[0] / elif PROXY_HOST and PROXY_USER: the static
\* proxy / otherwise browser_launch_args carries no proxy
WarmProxy(pool, cfg) ==
    IF pool # <<>> THEN PoolProxy(pool, 1)
    ELSE IF StaticConfigured(cfg) THEN StaticProxy
    ELSE NoProxy

WarmSelect ==
    /\ caller = "warmup"
    /\ spc = "start"
    /\ proxy_choice' = WarmProxy(pool_arg, static_proxy)
    /\ spc' = "done"
    /\ UNCHANGED <<caller, pool_arg, static_proxy>>
    /\ UNCHANGED nonSelectVars

\* if proxy_pool: random.choice(proxy_pool[: max(1, len(proxy_pool) // 4)])
FastPoolChoice ==
    /\ caller = "fast"
    /\ spc = "start"
    /\ IF pool_arg # <<>>
       THEN \E i \in DOMAIN TopProxies(pool_arg) :
                proxy_choice' = PoolProxy(TopProxies(pool_arg), i)
       ELSE UNCHANGED proxy_choice
    /\ spc' = "static"
    /\ UNCHANGED <<caller, pool_arg, static_proxy>>
    /\ UNCHANGED nonSelectVars

\* if settings.PROXY_HOST and settings.PROXY_USER: proxy_config is replaced
FastStaticOverride ==
    /\ caller = "fast"
    /\ spc = "static"
    /\ proxy_choice' = IF StaticConfigured(static_proxy)
                       THEN StaticProxy ELSE proxy_choice
    /\ spc' = "done"
    /\ UNCHANGED <<caller, pool_arg, static_proxy>>
    /\ UNCHANGED nonSelectVars

NextSelect == WarmSelect \/ FastPoolChoice \/ FastStaticOverride

SpecSelect == InitSelect /\ [][NextSelect]_vars

(***************************************************************************)
(* The CAPTCHA collector: main_collector_loop and the throttled pings of   *)
(* one cycle, counted by where they stand.                                 *)
(***************************************************************************)
\* max_concurrent_pings = 25
MaxConcurrentPings == 25

\* what can be raised inside ping_yandex_for_captcha's try: by
\* session.get (RequestsError), by open()/write() (OSError), by anything else
PingExceptions == {"RequestsError", "OSError", "Exception"}

InitCollect ==
    /\ cpc = "build"
    /\ cycle = 0
    /\ cycle_pool = 0
    /\ ping_sem = 0
    /\ pings_waiting = 0
    /\ pings_in_flight = 0
    /\ pings_ok = 0
    /\ pings_caught = 0
    /\ InitIdlePool
    /\ InitIdleApp
    /\ InitIdleScore
    /\ InitIdleFast
    /\ InitIdleBrowser
    /\ InitIdleFetch
    /\ InitIdleSelect
    /\ InitIdleManager
    /\ InitIdleCsv

\* proxy_pool = await build_rated_proxy_pool(...); "if not proxy_pool" waits
\* and starts over; otherwise sem = asyncio.Semaphore(25) and one
\* throttled_ping task per pool entry is handed to gather
CycleBuild ==
    /\ cpc = "build"
    /\ cycle < MaxCycles
    /\ cycle' = cycle + 1
    /\ \E n \in 0..MaxCyclePool :
          /\ cycle_pool' = n
          /\ IF n = 0
             THEN /\ cpc' = "wait_empty"
                  /\ UNCHANGED <<ping_sem, pings_waiting>>
             ELSE /\ cpc' = "gather"
                  /\ ping_sem' = MaxConcurrentPings
                  /\ pings_waiting' = n
    /\ pings_in_flight' = 0
    /\ pings_ok' = 0
    /\ pings_caught' = 0
    /\ UNCHANGED nonCollectVars

\* await asyncio.sleep(600); continue
CycleWaitEmpty ==
    /\ cpc = "wait_empty"
    /\ cpc' = "build"
    /\ UNCHANGED <<cycle, cycle_pool, ping_sem, pings_waiting,
                   pings_in_flight, pings_ok, pings_caught>>
    /\ UNCHANGED nonCollectVars

\* async with sem: (entry) of one throttled_ping
PingAcquire ==
    /\ cpc = "gather"
    /\ pings_waiting > 0
    /\ ping_sem > 0
    /\ ping_sem' = ping_sem - 1
    /\ pings_waiting' = pings_waiting - 1
    /\ pings_in_flight' = pings_in_flight + 1
    /\ UNCHANGED <<cpc, cycle, cycle_pool, pings_ok, pings_caught>>
    /\ UNCHANGED nonCollectVars

\* ping_yandex_for_captcha returns after its request: no CAPTCHA, a new
\* CAPTCHA page saved, or a duplicate skipped; the permit is released
PingReturn ==
    /\ cpc = "gather"
    /\ pings_in_flight > 0
    /\ pings_in_flight' = pings_in_flight - 1
    /\ ping_sem' = ping_sem + 1
    /\ pings_ok' = pings_ok + 1
    /\ UNCHANGED <<cpc, cycle, cycle_pool, pings_waiting, pings_caught>>
    /\ UNCHANGED nonCollectVars

\* faulty variant: the ping handles curl_cffi's errors only
PingCatchesRequestsErrorOnly(exc) == exc = "RequestsError"

\* "except errors.RequestsError" and "except Exception" of the ping
PingCatches(exc) == exc = "RequestsError" \/ exc \in PingExceptions

\* an exception is raised inside the ping's try: an except clause logs it
\* and the ping returns; one that no clause took would leave the task and
\* gather (no return_exceptions) would raise it into the collector loop.
\* "async with sem" releases the permit either way
PingRaise ==
    /\ cpc = "gather"
    /\ pings_in_flight > 0
    /\ pings_in_flight' = pings_in_flight - 1
    /\ ping_sem' = ping_sem + 1
    /\ \E exc \in PingExceptions :
          IF PingCatches(exc)
          THEN /\ pings_caught' = pings_caught + 1
               /\ UNCHANGED cpc
          ELSE /\ cpc' = "aborted"
               /\ UNCHANGED pings_caught
    /\ UNCHANGED <<cycle, cycle_pool, pings_waiting, pings_ok>>
    /\ UNCHANGED nonCollectVars

\* await asyncio.gather(*tasks) returns when every ping has ended
CycleGathered ==
    /\ cpc = "gather"
    /\ pings_waiting = 0
    /\ pings_in_flight = 0
    /\ cpc' = "wait"
    /\ UNCHANGED <<cycle, cycle_pool, ping_sem, pings_waiting,
                   pings_in_flight, pings_ok, pings_caught>>
    /\ UNCHANGED nonCollectVars

\* await asyncio.sleep(wait_time_minutes * 60); the next cycle starts
CycleWait ==
    /\ cpc = "wait"
    /\ cpc' = "build"
    /\ UNCHANGED <<cycle, cycle_pool, ping_sem, pings_waiting,
                   pings_in_flight, pings_ok, pings_caught>>
    /\ UNCHANGED nonCollectVars

NextCollect ==
    \/ CycleBuild
    \/ CycleWaitEmpty
    \/ PingAcquire
    \/ PingReturn
    \/ PingRaise
    \/ CycleGathered
    \/ CycleWait

SpecCollect == InitCollect /\ [][NextCollect]_vars

(***************************************************************************)
(* The AI manager: AIManager() constructions and completion requests of    *)
(* one process, in any order after the first construction (the module      *)
(* constructs ai_manager when it is imported).                             *)
(***************************************************************************)
\* what _initialize_client's try body can raise: the connection to Ollama
\* fails, the server answers with an error, anything else
InitExceptions == {"ConnectionError", "ResponseError", "Exception"}

InitManager ==
    /\ ai_instance = "none"
    /\ ai_client = "unset"
    /\ init_runs = 0
    /\ init_raised = FALSE
    /\ ai_calls = [constructions |-> 0, completions |-> 0]
    /\ contacts = 0
    /\ last_completion = [kind |-> "none", result |-> "none"]
    /\ InitIdlePool
    /\ InitIdleApp
    /\ InitIdleScore
    /\ InitIdleFast
    /\ InitIdleBrowser
    /\ InitIdleFetch
    /\ InitIdleSelect
    /\ InitIdleCollect
    /\ InitIdleCsv

CallsLeft == ai_calls.constructions + ai_calls.completions < MaxCalls

\* faulty variant: every construction initializes the client again
NeedsInitAlways(inst) == TRUE

\* "if cls._instance is None" in __new__
NeedsInit(inst) == inst = "none"

\* "except Exception" of _initialize_client
InitCatches(exc) == exc \in InitExceptions

\* AIManager(): __new__ creates the instance and runs _initialize_client the
\* first time; the try body connects and lists the models, or raises, and
\* the except clause sets self.client = None
Construct ==
    /\ CallsLeft
    /\ ai_calls' = [ai_calls EXCEPT !.constructions = @ + 1]
    /\ IF NeedsInit(ai_instance)
       THEN /\ ai_instance' = "created"
            /\ init_runs' = init_runs + 1
            /\ \/ /\ ai_client' = "connected"
                  /\ UNCHANGED init_raised
               \/ \E exc \in InitExceptions :
                     IF InitCatches(exc)
                     THEN /\ ai_client' = "none"
                          /\ UNCHANGED init_raised
                     ELSE /\ init_raised' = TRUE
                          /\ UNCHANGED ai_client
       ELSE UNCHANGED <<ai_instance, ai_client, init_runs, init_raised>>
    /\ UNCHANGED <<contacts, last_completion>>
    /\ UNCHANGED nonManagerVars

\* is_available(): self.client is not None
IsAvailable(client) == client # "none"

\* a completion request on the instance: {} when the manager is not
\* available; otherwise self.client.generate(...) is called and its
\* response returned, or {} when it raises
Completion(kind) ==
    /\ CallsLeft
    /\ ai_instance = "created"
    /\ ai_client # "unset"
    /\ ai_calls' = [ai_calls EXCEPT !.completions = @ + 1]
    /\ IF ~IsAvailable(ai_client)
       THEN /\ last_completion' = [kind |-> kind, result |-> "empty"]
            /\ UNCHANGED contacts
       ELSE /\ contacts' = contacts + 1
            /\ \E res \in {"response", "empty"} :
                  last_completion' = [kind |-> kind, result |-> res]
    /\ UNCHANGED <<ai_instance, ai_client, init_runs, init_raised>>
    /\ UNCHANGED nonManagerVars

GetTextCompletion == Completion("text")

GetVisionCompletion == Completion("vision")

NextManager == Construct \/ GetTextCompletion \/ GetVisionCompletion

SpecManager == InitManager /\ [][NextManager]_vars

(***************************************************************************)
(* The results log: save_to_csv called again and again on OUTPUT_FILE. A   *)
(* line of the file is the header or the row a call wrote for one result.  *)
(* A write may fail after open() has created the file; what was written    *)
(* before the failure stays in the file.                                   *)
(***************************************************************************)
HeaderLine == [kind |-> "header", call |-> 0, idx |-> 0]
RowLine(c, i) == [kind |-> "row", call |-> c, idx |-> i]

\* the lines one call means to write: the header when OUTPUT_FILE.exists()
\* was false, then one row per entry of parsed_data[:10]
LinesOf(c, n, existed) ==
    (IF existed THEN <<>> ELSE <<HeaderLine>>)
        \o [i \in 1..Min(n, TopN) |-> RowLine(c, i)]

InitCsv ==
    /\ csv_exists = FALSE
    /\ csv_file = <<>>
    /\ saves = 0
    /\ headers_written = 0
    /\ InitIdlePool
    /\ InitIdleApp
    /\ InitIdleScore
    /\ InitIdleFast
    /\ InitIdleBrowser
    /\ InitIdleFetch
    /\ InitIdleSelect
    /\ InitIdleCollect
    /\ InitIdleManager

\* save_to_csv when OUTPUT_FILE.exists() or open(OUTPUT_FILE, "a") raises:
\* the except clauses log, the file is as before
SaveOpenFails ==
    /\ saves < MaxSaves
    /\ saves' = saves + 1
    /\ UNCHANGED <<csv_exists, csv_file, headers_written>>
    /\ UNCHANGED nonCsvVars

\* save_to_csv when open() succeeds: the file exists from then on; the
\* header is written if it did not exist before, then the rows; either
\* every line reaches the file, or a write fails (the except clauses log)
\* and only the lines before it do
SaveWrite ==
    /\ saves < MaxSaves
    /\ saves' = saves + 1
    /\ csv_exists' = TRUE
    /\ headers_written' = headers_written + (IF csv_exists THEN 0 ELSE 1)
    /\ \E n \in 0..MaxRows :
          LET lines == LinesOf(saves + 1, n, csv_exists)
          IN  \E k \in 0..Len(lines) :
                  csv_file' = csv_file \o SubSeq(lines, 1, k)
    /\ UNCHANGED nonCsvVars

NextCsv == SaveOpenFails \/ SaveWrite

SpecCsv == InitCsv /\ [][NextCsv]_vars

(***************************************************************************)
(* Properties of the workflow (checked under SpecApp).                     *)
(***************************************************************************)
Phases == {"warmup", "fast", "fallback", "process"}

\* phase p has ended (returned or raised) before position k of the log
EndedBefore(p, k) ==
    \E j \in 1..(k - 1) : log[j] \in {Ev("return", p), Ev("raise", p)}

ReturnedBefore(p, k) == \E j \in 1..(k - 1) : log[j] = Ev("return", p)

\* the phases that have been entered and have not ended
Running ==
    {p \in Phases :
        Count("call", p) > Count("return", p) + Count("raise", p)}

\* C1: the browser fallback is invoked at most once per query, only when the
\* fast-path tag is "captcha", and once it has ended (returned or raised) no
\* warm-up, fast path, GET or fallback follows
C1_SingleFallback ==
    /\ Count("call", "fallback") <= 1
    /\ Count("call", "fallback") >= 1 => search_result.status = "captcha"
    /\ \A k \in DOMAIN log :
          log[k] \in {Ev("return", "fallback"), Ev("raise", "fallback")}
          => \A j \in DOMAIN log :
                j > k => /\ log[j].ev # "get"
                         /\ ~(/\ log[j].ev = "call"
                              /\ log[j].ph \in {"warmup", "fast", "fallback"})

\* the fallback ran once, failed, and the workflow is over
C1_Witness ==
    /\ rpc = "complete"
    /\ Count("call", "fallback") = 1
    /\ browser_result.status = "error"

\* C2: when warm-up reports failure the workflow is complete at once: the log
\* holds the warm-up's call and return and nothing else, so neither the fast
\* path, nor the fallback, nor the result processing is ever invoked
C2_WarmupFailureAborts ==
    (state.set /\ ~state.success)
    => /\ rpc = "complete"
       /\ log = <<Ev("call", "warmup"), Ev("return", "warmup")>>

\* warm-up failed and start has returned
C2_Witness ==
    /\ state.set
    /\ ~state.success
    /\ mpc = "done"

\* C3: warm-up, the fast path and the HTTP GET each happen at most once; once
\* warm-up has succeeded the fast path has been entered exactly once, and
\* once the fast path has ended exactly one GET has been issued
C3_LinearWorkflow ==
    /\ Count("call", "warmup") <= 1
    /\ Count("call", "fast") <= 1
    /\ Count("get", "fast") <= 1
    /\ state.success => Count("call", "fast") = 1
    /\ Count("return", "fast") + Count("raise", "fast") >= 1
       => Count("get", "fast") = 1

\* the fast path ended with "error" and the workflow is complete
C3_Witness ==
    /\ rpc = "complete"
    /\ search_result.status = "error"
    /\ Count("get", "fast") = 1

\* C4: at most one phase runs at a time; warm-up has returned before the fast
\* path starts and before its GET; the fast path has returned before the
\* fallback starts
C4_PhasesSequential ==
    /\ Cardinality(Running) <= 1
    /\ \A k \in DOMAIN log :
        /\ log[k] = Ev("call", "fast") => ReturnedBefore("warmup", k)
        /\ log[k] = Ev("get", "fast") => ReturnedBefore("warmup", k)
        /\ log[k] = Ev("call", "fallback") => ReturnedBefore("fast", k)
        /\ log[k] = Ev("call", "process")
           => \A p \in {"warmup", "fast", "fallback"} :
                 Count("call", p) >= 1 => EndedBefore(p, k)

\* all three phases have run, one after the other
C4_Witness ==
    /\ Count("return", "warmup") = 1
    /\ Count("return", "fast") = 1
    /\ Count("return", "fallback") = 1
    /\ rpc = "process"

\* C5: process_successful_results is invoked at most once, and only after a
\* fast-path "success" or after a "captcha" whose fallback ended in "success"
C5_ProcessOnlyOnSuccess ==
    /\ Count("call", "process") <= 1
    /\ Count("call", "process") >= 1
       => \/ search_result.status = "success"
          \/ /\ search_result.status = "captcha"
             /\ browser_result.status = "success"
    /\ (state.set /\ ~state.success) => Count("call", "process") = 0

\* results are processed after a successful fallback
C5_Witness ==
    /\ Count("call", "process") = 1
    /\ search_result.status = "captcha"
    /\ browser_result.status = "success"
    /\ rpc = "complete"

\* C9 (as claimed): when the pool built for the query is empty, start still
\* runs the workflow, so once start is over the warm-up has been invoked
C9_EmptyPoolStillRuns ==
    (/\ mpc = "done"
     /\ engine \in SearchEngines
     /\ settings.USE_FREE_PROXIES
     /\ proxy_pool = <<>>)
    => Count("call", "warmup") >= 1

\* C20: start never ends with an exception of its own: whatever escapes
\* SearchApp.run (or the Exit raised for an empty pool or a bad engine) is
\* caught by start's try block, which then returns normally
C20_StartNeverCrashes ==
    /\ mpc # "crashed"
    /\ rpc = "raised" => mpc \in {"app", "done"}
    /\ (rpc = "raised" /\ mpc = "done") => caught = "exception"
    /\ (mpc = "done" /\ rpc = "idle") => caught = "exit"

\* a phase raised into SearchApp.run and start has returned
C20_Witness ==
    /\ mpc = "done"
    /\ rpc = "raised"
    /\ caught = "exception"
    /\ \E i \in DOMAIN log : log[i].ev = "raise"

\* C22 (as claimed): run() assigns the session state once, when warm-up
\* returns, no later phase assigns it, and the fast path is the only phase
\* that reads its entries
C22_StateWrittenOnceReadByFast ==
    /\ state_writes = Count("return", "warmup")
    /\ state_writes <= 1
    /\ state.set <=> state_writes = 1
    /\ state_readers \subseteq {"fast"}

\* C23: once main_async_logic has handed the pool to SearchApp, no step of
\* run() or of its phases changes the pool's contents or order
C23_PoolReadOnly ==
    [][mpc = "app" => proxy_pool' = proxy_pool]_vars

\* a query that went through warm-up, fast path, fallback and result
\* processing with a pool of two proxies
C23_Witness ==
    /\ rpc = "complete"
    /\ Len(proxy_pool) = 2
    /\ Count("return", "fallback") = 1
    /\ Count("return", "process") = 1

\* C39: when the fast path returned "success" and the page parsed to no
\* result, the browser fallback is never called, process_successful_results
\* returns (it does not raise), no row is saved and no URL is visited
C39_EmptyResultsTerminal ==
    (search_result.status = "success" /\ parsed_data = <<>>)
    => /\ Count("call", "fallback") = 0
       /\ Count("raise", "process") = 0
       /\ rpc \in {"process", "complete"}
       /\ saved_rows = 0
       /\ visited = 0

\* such a run, completed
C39_Witness ==
    /\ search_result.status = "success"
    /\ parsed_data = <<>>
    /\ Count("return", "process") = 1
    /\ rpc = "complete"
    /\ mpc = "done"

\* positions of run() while a phase or the result processing is awaited
Awaiting == {"warmup", "fast", "fast_get", "fallback", "process"}

\* phases run() has started
PhaseCalls ==
    Count("call", "warmup") + Count("call", "fast")
        + Count("call", "fallback")

\* C32 (as claimed): run() starts at most three phases, and from every
\* state in which it awaits one it eventually reaches its completion
C32_RunReachesComplete ==
    /\ [](PhaseCalls <= 3)
    /\ [](rpc \in Awaiting => <>(rpc = "complete"))

(***************************************************************************)
(* Properties of the proxy rater (checked under SpecPool).                 *)
(***************************************************************************)
\* C6: every entry of the pool build_rated_proxy_pool returns is a probe
\* result whose status is "ok"
C6_PoolOnlyOk ==
    \A k \in DOMAIN valid_proxies :
        /\ valid_proxies[k].kind = "dict"
        /\ valid_proxies[k].status = "ok"

\* a pool is returned although one probe failed and the other one is usable
C6_Witness ==
    /\ build_status = "returned"
    /\ valid_proxies # <<>>
    /\ \E i \in DOMAIN results : results[i].status = "failed"

\* C7: the returned pool is sorted by score, highest first, whatever the
\* order in which the probes finished
C7_PoolSortedDesc ==
    \A k \in 1..(Len(valid_proxies) - 1) :
        valid_proxies[k].score >= valid_proxies[k + 1].score

\* two usable proxies were gathered with the slower one first
C7_Witness ==
    /\ build_status = "returned"
    /\ Len(results) >= 2
    /\ results[1].status = "ok"
    /\ results[2].status = "ok"
    /\ results[1].score < results[2].score
    /\ Len(valid_proxies) = 2

\* C8: build_rated_proxy_pool never raises, and it returns an empty pool when
\* fetch_proxy_list gave nothing or when no probe ended "ok"
C8_BuildNeverRaises ==
    /\ build_status # "raised"
    /\ (/\ build_status = "returned"
        /\ \/ raw_proxies = <<>>
           \/ \A i \in DOMAIN results : results[i].status # "ok")
       => valid_proxies = <<>>

\* the build returned although a probe task raised and none was usable
C8_Witness ==
    /\ build_status = "returned"
    /\ valid_proxies = <<>>
    /\ \E i \in DOMAIN results : results[i].kind = "exception"

\* C10: the number of candidates inside "async with sem" (probing or in a
\* backoff sleep) never exceeds max_concurrent
C10_AdmissionBound == Cardinality(InProgress) <= max_concurrent

\* the semaphore is full with a sleeping candidate while another one waits
C10_Witness ==
    /\ Cardinality(InProgress) = max_concurrent
    /\ \E i \in Tasks : tpc[i] = "sleep"
    /\ \E i \in Tasks : tpc[i] = "new"


\* C11: once an attempt has returned HTTP 200 the candidate's task is over:
\* its "ok" result stands as recorded, with the score of the latency measured
\* for that attempt, and no further attempt is made for it
C11_StopOnFirstSuccess ==
    [][\A i \in DOMAIN results :
          results[i].status = "ok"
          => /\ tpc[i] = "done"
             /\ results[i].latency \in Latencies
             /\ attempt'[i] = attempt[i]
             /\ results'[i] = results[i]]_vars

\* a candidate answered 200 while the loop still had an iteration left
C11_Witness ==
    \E i \in DOMAIN results :
        /\ results[i].status = "ok"
        /\ tpc[i] = "done"
        /\ attempt[i] < num_retries

\* C12: a candidate is probed at most num_retries times, and a task that
\* ends without a 200 and without raising returns exactly
\* {status "failed", score 0, latency infinity}, after num_retries attempts
C12_BoundedAttempts ==
    \A i \in Tasks :
        /\ attempt[i] <= num_retries
        /\ tpc[i] = "done" => results[i].kind \in {"dict", "exception"}
        /\ (tpc[i] = "done" /\ results[i].kind = "dict"
                            /\ results[i].status # "ok")
           => /\ results[i].status = "failed"
              /\ results[i].score = 0
              /\ results[i].latency = InfLatency
              /\ results[i].proxy = raw_proxies[i]
              /\ attempt[i] = num_retries

\* a candidate failed after two attempts
C12_Witness ==
    \E i \in Tasks :
        /\ tpc[i] = "done"
        /\ results[i].status = "failed"
        /\ attempt[i] = num_retries
        /\ num_retries >= 2


\* C24 (as claimed): a failed attempt that leaves another iteration to run
\* puts the task into the backoff sleep, so that every attempt after the
\* first is preceded by the sleep, whatever made the previous one fail
C24_BackoffBeforeRetry ==
    [][\A i \in Tasks :
          (/\ attempt'[i] = attempt[i] + 1
           /\ tpc'[i] # "done"
           /\ attempt'[i] < num_retries)
          => tpc'[i] = "sleep"]_vars

\* C25: when a probe task ended with an unexpected exception the build still
\* returns; the pool holds exactly the candidates that validated "ok", each
\* with the result its probe returned, and nothing for the failed task
C25_TaskFailureNotFatal ==
    (bpc = "done" /\ \E i \in Tasks : results[i].kind = "exception")
    => /\ build_status = "returned"
       /\ \A i \in Tasks :
             results[i].status = "ok"
             => \E j \in DOMAIN valid_proxies : valid_proxies[j] = results[i]
       /\ \A j \in DOMAIN valid_proxies :
             \E i \in Tasks :
                 results[i].status = "ok" /\ valid_proxies[j] = results[i]
       /\ Len(valid_proxies) =
             Cardinality({i \in Tasks : results[i].status = "ok"})

\* the first candidate's task raised, the second validated and is the pool
C25_Witness ==
    /\ bpc = "done"
    /\ Len(results) = 2
    /\ results[1].kind = "exception"
    /\ results[2].status = "ok"
    /\ valid_proxies = <<results[2]>>

\* C36: while the probes run, the permits out are those of the candidates
\* inside "async with sem"; the build eventually returns, with every
\* candidate admitted and its probe ended; and when it has returned after
\* probing, gather holds one result per candidate and every permit is back,
\* also when probes raised
C36_NoPermitLeaked ==
    /\ [](bpc # "fetch" /\ raw_proxies # <<>>
            => sem + Cardinality(InProgress) = max_concurrent)
    /\ [](bpc = "done" /\ raw_proxies # <<>>
            => /\ sem = max_concurrent
               /\ Len(results) = Len(raw_proxies)
               /\ \A i \in DOMAIN results :
                     /\ results[i].kind # "pending"
                     /\ results[i].proxy = raw_proxies[i])
    /\ <>(/\ build_status = "returned"
          /\ Len(tpc) = Len(raw_proxies)
          /\ \A i \in Tasks : tpc[i] = "done")

\* two candidates probed one at a time, the first probe raised, the build
\* has returned with every permit back
C36_Witness ==
    /\ bpc = "done"
    /\ build_status = "returned"
    /\ Len(raw_proxies) = 2
    /\ max_concurrent = 1
    /\ results[1].kind = "exception"
    /\ results[2].kind = "dict"
    /\ sem = max_concurrent

\* C37: when the build has returned, the candidates are entries at distinct
\* positions of the provider's list, at most fetch_limit of them; every
\* pool entry is the "ok" result of one candidate, no candidate stands
\* behind two entries, and the pool holds at most fetch_limit entries
C37_PoolFromCandidates ==
    build_status = "returned"
    => /\ Len(raw_proxies) <= fetch_limit
       /\ \E g \in [DOMAIN raw_proxies -> DOMAIN provider.proxies] :
             /\ Injective(g)
             /\ \A i \in DOMAIN raw_proxies :
                   raw_proxies[i] = ProxyUrl(provider.proxies[g[i]])
       /\ \E f \in [DOMAIN valid_proxies -> DOMAIN raw_proxies] :
             /\ Injective(f)
             /\ \A k \in DOMAIN valid_proxies :
                   /\ valid_proxies[k].proxy = raw_proxies[f[k]]
                   /\ valid_proxies[k] = results[f[k]]
       /\ Len(valid_proxies) <= Len(raw_proxies)
       /\ Len(valid_proxies) <= fetch_limit

\* a pool as long as fetch_limit allows, of two different endpoints
C37_Witness ==
    /\ build_status = "returned"
    /\ fetch_limit = 2
    /\ Len(valid_proxies) = 2
    /\ valid_proxies[1].proxy # valid_proxies[2].proxy

(***************************************************************************)
(* Properties of the score (checked under SpecScore).                      *)
(***************************************************************************)
\* max(0, 100 - 20 * latency) as a real number, in thousandths
ExactScore(l) == Max(0, 100 * 1000 - (20 * 1000 * l) \div TicksPerSecond)

\* scores lie in [0, 100], are 0 from 5.0 s on, and do not increase with
\* the latency
ScoreShape ==
    /\ \A i \in scored :
          /\ probe_score[i] \in 0..(100 * 100)
          /\ probe_latency[i] >= 5 * TicksPerSecond => probe_score[i] = 0
    /\ \A i, j \in scored :
          probe_latency[i] < probe_latency[j]
          => probe_score[i] >= probe_score[j]

\* C13 (as claimed): the score of a validated proxy equals
\* max(0, 100 - 20 * latency), is non-increasing in the latency, lies in
\* [0, 100] and is 0 for every latency >= 5.0
C13_ScoreExact ==
    /\ \A i \in scored : 10 * probe_score[i] = ExactScore(probe_latency[i])
    /\ ScoreShape

\* C13 (amended): the score of a validated proxy is max(0, 100 - 20 * latency)
\* rounded to two decimals (within 0.005 of it), is non-increasing in the
\* latency, lies in [0, 100] and is 0 for every latency >= 5.0
C13_ScoreRounded ==
    /\ \A i \in scored :
          10 * probe_score[i] - ExactScore(probe_latency[i]) \in -5..5
    /\ ScoreShape

\* two probes rated, the slower one at 5.0 s or more, the faster one with a
\* score that rounding changed
C13_Witness ==
    /\ scored = {1, 2}
    /\ probe_latency[1] < probe_latency[2]
    /\ probe_latency[2] >= 5 * TicksPerSecond
    /\ probe_score[1] > 0
    /\ 10 * probe_score[1] # ExactScore(probe_latency[1])


(***************************************************************************)
(* Properties of the fast path (checked under SpecFast).                   *)
(***************************************************************************)
\* keyword occurs in body at some offset, letter case ignored
OccursIgnoringCase(keyword, body) ==
    \E off \in 0..(Len(body) - Len(keyword)) :
        \A j \in 1..Len(keyword) :
            LowerChar(body[off + j]) = LowerChar(keyword[j])

\* C14: when perform_http_search returns after a response arrived, the tag
\* is "captcha" or "success", and it is "captcha" exactly when some
\* configured keyword occurs in the body, letter case ignored
C14_Classification ==
    (fast_result.end = "returned" /\ ~server.error)
    => /\ fast_result.status \in {"captcha", "success"}
       /\ fast_result.status = "captcha"
          <=> \E k \in 1..Len(captcha_keywords) :
                  OccursIgnoringCase(captcha_keywords[k], server.text)

\* "captcha" was returned for the second keyword, which occurs in the body
\* only when letter case is ignored
C14_Witness ==
    /\ fast_result = [end |-> "returned", status |-> "captcha"]
    /\ kw_index = 2
    /\ ~Contains(html_content, captcha_keywords[2])
    /\ ~Contains(html_content, Lower(captcha_keywords[2]))

\* C15: a "captcha" outcome has written the page under CAPTCHAS_DIR and
\* nothing under SUCCESS_DIR, a "success" outcome the page under SUCCESS_DIR
\* and nothing under CAPTCHAS_DIR, an "error" outcome nothing at all
C15_ArchivesMatchTag ==
    fast_result.end = "returned"
    => /\ fast_result.status = "captcha"
          => archives = [captcha |-> <<server.text>>, success |-> <<>>]
       /\ fast_result.status = "success"
          => archives = [captcha |-> <<>>, success |-> <<server.text>>]
       /\ fast_result.status = "error"
          => archives = [captcha |-> <<>>, success |-> <<>>]

\* "success" was returned for a non-empty page after two keywords were tried
C15_Witness ==
    /\ fast_result = [end |-> "returned", status |-> "success"]
    /\ Len(captcha_keywords) = 2
    /\ archives.success = <<html_content>>
    /\ html_content # <<>>


\* C31 (as claimed): once the server has answered, perform_http_search
\* returns the tag the body determines, whether or not the archive file
\* could be written
C31_ArchiveNotNeeded ==
    (fpc = "done" /\ ~server.error)
    => /\ fast_result.end = "returned"
       /\ fast_result.status =
             (IF \E k \in 1..Len(captcha_keywords) :
                     OccursIgnoringCase(captcha_keywords[k], server.text)
              THEN "captcha" ELSE "success")

\* C38: a response whose status code is not 200 is classified by its body
\* alone, as a 200 response is: "captcha" when a keyword occurs in it and
\* "success" otherwise, whenever a tag is returned; without a keyword the
\* outcome is never one that makes run() start the browser fallback
C38_StatusCodeIgnored ==
    (fpc = "done" /\ ~server.error /\ server.status_code # 200)
    => LET hit == \E k \in 1..Len(captcha_keywords) :
                     OccursIgnoringCase(captcha_keywords[k], server.text)
       IN  /\ fast_result.end = "returned"
              => fast_result.status = (IF hit THEN "captcha" ELSE "success")
           /\ ~hit => /\ fast_result.status \notin {"captcha", "error"}
                      /\ NextPhase(fast_result.status) # "fallback"

\* a 429 answer without any keyword, returned as "success" and archived
C38_Witness ==
    /\ fpc = "done"
    /\ server.status_code = 429
    /\ captcha_keywords # <<>>
    /\ fast_result = [end |-> "returned", status |-> "success"]
    /\ archives.success = <<server.text>>

(***************************************************************************)
(* Properties of the browser handlers (checked under SpecBrowser).         *)
(***************************************************************************)
\* C16 (as claimed): whatever internal step fails, a phase function returns
\* a tagged outcome to SearchApp.run and never raises
C16_PhasesNeverRaise ==
    /\ handler_result.end # "raised"
    /\ fast_result.end # "raised"

\* C17 (as claimed): warm-up always returns; it reports success = false when
\* any step failed, the launch included, and success = true with the
\* profile's user agent only when every step completed
C17_WarmupReportsFailure ==
    (flow = "warmup" /\ hpc = "done")
    => /\ handler_result.end = "returned"
       /\ failed_step # "none" => handler_result.tag = "failure"
       /\ handler_result.tag = "success"
          => failed_step = "none" /\ handler_result.user_agent = profile

Did(step) == \E k \in DOMAIN steps : steps[k].step = step
DidOk(step) == \E k \in DOMAIN steps : steps[k] = [step |-> step, ok |-> TRUE]
Times(step) == Cardinality({k \in DOMAIN steps : steps[k].step = step})

\* the steps of the fallback named by its contract, in their order; the
\* solver belongs to the CAPTCHA step
FlowSteps == {"goto", "consent", "captcha", "solve", "wait", "parse"}
Rank(step) ==
    CASE step = "goto" -> 1 [] step = "consent" -> 2 [] step = "captcha" -> 3
      [] step = "solve" -> 4 [] step = "wait" -> 5 [] step = "parse" -> 6
      [] OTHER -> 0

\* C26 (as claimed): the fallback calls the solver at most once and only
\* with the marker on the page; when the solver reports unsolved, the run
\* neither waits for the results nor parses, and it ends with "error"
C26_UnsolvedEndsInError ==
    flow = "fallback"
    => /\ Times("solve") <= 1
       /\ (hpc = "solve" \/ Did("solve")) => marker = "present"
       /\ is_solved = "unsolved" => ~Did("wait") /\ ~Did("parse")
       /\ (is_solved = "unsolved" /\ hpc = "done")
          => /\ handler_result.end = "returned"
             /\ handler_result.tag = "error"

\* C27 (as claimed): the fallback's steps finish in the order navigate,
\* consent, CAPTCHA check and solve, wait for results, parse, each after the
\* ones before it succeeded; "success" is returned only when all of them
\* completed, and "error" is returned when any of them raised
C27_OrderedSteps ==
    flow = "fallback"
    => /\ \A k, l \in DOMAIN steps :
             (k < l /\ steps[k].step \in FlowSteps
                    /\ steps[l].step \in FlowSteps)
             => Rank(steps[k].step) < Rank(steps[l].step) /\ steps[k].ok
       /\ \A l \in DOMAIN steps :
             steps[l].step \in FlowSteps
             => \A st \in FlowSteps \ {"solve"} :
                    Rank(st) < Rank(steps[l].step) => DidOk(st)
       /\ handler_result.tag = "success"
          => \A st \in FlowSteps \ {"solve"} : DidOk(st)
       /\ (hpc = "done" /\ \E k \in DOMAIN steps :
                               steps[k].step \in FlowSteps /\ ~steps[k].ok)
          => /\ handler_result.end = "returned"
             /\ handler_result.tag = "error"

\* C28 (as claimed): a consent loop looks the selectors up in list order,
\* clicks at most one button, looks up no selector after a click, and never
\* makes its phase fail
C28_ConsentFirstWins ==
    /\ \A k \in DOMAIN tried : tried[k] = k
    /\ Len(clicks) <= 1
    /\ clicks # <<>> => tried[Len(tried)] = clicks[1]
    /\ ~Did("consent") \/ DidOk("consent")

(***************************************************************************)
(* Properties of fetch_proxy_list (checked under SpecFetch).               *)
(***************************************************************************)
\* C21: when the provider lists n proxies, fetch_proxy_list(limit) returns
\* min(limit, n) entries, each "http://" followed by the provider entry at
\* a position of the feed, and no position is returned twice
C21_SampleWithoutReplacement ==
    (qpc = "done" /\ feed.ok)
    => LET n == Len(feed.proxies)
       IN  /\ Len(fetched) = (IF list_limit <= n THEN list_limit ELSE n)
           /\ Len(picked) = Len(fetched)
           /\ \A i \in 1..Len(fetched) :
                 /\ picked[i] \in 1..n
                 /\ fetched[i] = [scheme |-> "http://",
                                  hostport |-> feed.proxies[picked[i]]]
           /\ \A i, j \in 1..Len(picked) :
                 i # j => picked[i] # picked[j]
           /\ fetched \in FetchProxyList(feed, list_limit)

\* a limit above the feed's length: both provider entries returned, the
\* second one first
C21_Witness ==
    /\ qpc = "done"
    /\ feed.ok
    /\ Len(feed.proxies) = 2
    /\ list_limit > 2
    /\ picked = <<2, 1>>
    /\ Len(fetched) = 2

(***************************************************************************)
(* Properties of the proxy selections (checked under SpecSelect).          *)
(***************************************************************************)
\* C29: warm-up connects through the first entry of a non-empty pool; with
\* an empty pool it connects through the static proxy when PROXY_HOST and
\* PROXY_USER are set, and through no proxy otherwise
C29_WarmupProxy ==
    (caller = "warmup" /\ spc = "done")
    => /\ pool_arg # <<>>
          => proxy_choice = [kind |-> "pool", entry |-> pool_arg[1]]
       /\ (pool_arg = <<>> /\ static_proxy.host /\ static_proxy.user)
          => proxy_choice.kind = "static"
       /\ (pool_arg = <<>> /\ ~(static_proxy.host /\ static_proxy.user))
          => proxy_choice.kind = "none"

\* the pool wins over configured static credentials
C29_Witness ==
    /\ caller = "warmup"
    /\ spc = "done"
    /\ Len(pool_arg) >= 2
    /\ static_proxy.host /\ static_proxy.user
    /\ proxy_choice = [kind |-> "pool", entry |-> 1]

\* C30: the fast path connects through the static proxy whenever PROXY_HOST
\* and PROXY_USER are set; otherwise, with a pool of n >= 1 entries, through
\* a pool entry among the first max(1, n div 4); otherwise through no proxy
C30_FastProxy ==
    (caller = "fast" /\ spc = "done")
    => LET n == Len(pool_arg)
           configured == static_proxy.host /\ static_proxy.user
       IN  /\ configured => proxy_choice.kind = "static"
           /\ (~configured /\ n >= 1)
              => /\ proxy_choice.kind = "pool"
                 /\ \E i \in 1..(IF n \div 4 >= 1 THEN n \div 4 ELSE 1) :
                        proxy_choice.entry = pool_arg[i]
           /\ (~configured /\ n = 0) => proxy_choice.kind = "none"

\* the second of the two entries of a top quartile is drawn
C30_Witness ==
    /\ caller = "fast"
    /\ spc = "done"
    /\ ~static_proxy.host
    /\ Len(pool_arg) \div 4 = 2
    /\ proxy_choice = [kind |-> "pool", entry |-> 2]

(***************************************************************************)
(* Properties of the collector (checked under SpecCollect).                *)
(***************************************************************************)
\* C33: within a cycle at most 25 pings are in flight, each holding one of
\* the 25 permits; an exception inside a ping never ends the collector
\* loop, and when gather has returned every ping of the cycle has run to
\* its end, those that met an exception included
C33_PingsThrottled ==
    /\ pings_in_flight <= MaxConcurrentPings
    /\ cpc = "gather" => ping_sem + pings_in_flight = MaxConcurrentPings
    /\ cpc # "aborted"
    /\ cpc \in {"gather", "wait"}
       => pings_waiting + pings_in_flight + pings_ok + pings_caught
              = cycle_pool
    /\ cpc = "wait" => pings_ok + pings_caught = cycle_pool

\* every permit is out, a ping waits for one, and a ping of the cycle has
\* already ended in an except clause
C33_Witness ==
    /\ cpc = "gather"
    /\ pings_in_flight = MaxConcurrentPings
    /\ pings_waiting > 0
    /\ pings_caught > 0

(***************************************************************************)
(* Properties of the AI manager (checked under SpecManager).               *)
(***************************************************************************)
\* C34: over any sequence of constructions _initialize_client runs at most
\* once, and no construction raises; once the initialization has failed
\* the manager is unavailable and stays so, the client is never contacted
\* and every completion request returns an empty result
C34_SingletonManager ==
    /\ [](/\ init_runs <= 1
          /\ ai_calls.constructions >= 1 => init_runs = 1
          /\ ~init_raised
          /\ ai_client = "none"
             => /\ ~IsAvailable(ai_client)
                /\ contacts = 0
                /\ last_completion.result \in {"none", "empty"})
    /\ [][ai_client = "none"
            => ai_client' = "none" /\ contacts' = contacts]_vars

\* a failed initialization, a second construction after it, and a
\* completion request answered with the empty result
C34_Witness ==
    /\ ai_client = "none"
    /\ init_runs = 1
    /\ ai_calls.constructions >= 2
    /\ ai_calls.completions >= 1
    /\ last_completion = [kind |-> "text", result |-> "empty"]
    /\ contacts = 0

(***************************************************************************)
(* Properties of the results log (checked under SpecCsv).                  *)
(***************************************************************************)
HeaderCount == Cardinality({i \in DOMAIN csv_file : csv_file[i].kind = "header"})
RowCount(f) == Cardinality({i \in DOMAIN f : f[i].kind = "row"})

\* C35 (as claimed): a log that holds rows starts with the header, which
\* stands in it exactly once; a call adds at most 10 rows and leaves the
\* lines of earlier calls as they are
C35_AppendOnlyLog ==
    /\ [](RowCount(csv_file) > 0
            => /\ csv_file[1] = HeaderLine
               /\ HeaderCount = 1)
    /\ [](HeaderCount <= 1 /\ headers_written <= 1)
    /\ [][/\ Len(csv_file') >= Len(csv_file)
           /\ SubSeq(csv_file', 1, Len(csv_file)) = csv_file
           /\ RowCount(csv_file') - RowCount(csv_file) <= TopN]_vars

=============================================================================
